---- MODULE Spec2Model ----
(***************************************************************************)
(* Model of the drafter page-replay engine (src/drafter/server.py,         *)
(* history.py, routes.py, page.py): the route table, setup and reset, the  *)
(* value codec, the ledger's string form, the parameter binder and the     *)
(* per-request lifecycle of render_route / drafter_page.                   *)
(*                                                                         *)
(* Text is modelled as a sequence of tokens.  A token is a piece of text   *)
(* that contains no delimiter; the delimiters "|", "<TAB>|<TAB>" and       *)
(* "<NL>|<NL>" are tokens of their own, so joining and splitting are real  *)
(* operations on the text.  Wall-clock timestamps are the fixed tokens     *)
(* "t1" (started) and "t2" (stopped): the time itself is not modelled.     *)
(***************************************************************************)
EXTENDS Integers, Sequences, FiniteSets, TLC

VARIABLES server, frames, prog, codec

vars == <<server, frames, prog, codec>>

(***************************************************************************)
(* Bounds                                                                  *)
(***************************************************************************)
\* longest _state_history the model lets a server accumulate before a reset
MaxStateHistory == 2
\* longest ledger (in entries) a client sends back
MaxLedger == 1
\* the most items a composite value of the codec's inputs holds
MaxItems == 2

(***************************************************************************)
(* Generic helpers on sequences                                            *)
(***************************************************************************)
Range(f) == {f[i] : i \in DOMAIN f}

Take(seq, n) == SubSeq(seq, 1, IF n < Len(seq) THEN n ELSE Len(seq))

RECURSIVE Flatten(_)
Flatten(ss) == IF ss = <<>> THEN <<>> ELSE Head(ss) \o Flatten(Tail(ss))

\* str.join: the fields with the delimiter token between them
RECURSIVE Join(_, _)
Join(fields, sep) ==
  IF fields = <<>> THEN <<>>
  ELSE IF Len(fields) = 1 THEN fields[1]
  ELSE fields[1] \o <<sep>> \o Join(Tail(fields), sep)

\* str.split: the text cut at every delimiter token (always at least one field)
RECURSIVE SplitFrom(_, _, _)
SplitFrom(text, sep, cur) ==
  IF text = <<>> THEN <<cur>>
  ELSE IF Head(text) = sep THEN <<cur>> \o SplitFrom(Tail(text), sep, <<>>)
  ELSE SplitFrom(Tail(text), sep, Append(cur, Head(text)))

Split(text, sep) == SplitFrom(text, sep, <<>>)

(***************************************************************************)
(* Python values and transport (JSON) values                               *)
(*   Python value:  [k |-> kind, n |-> number, s |-> text]                 *)
(*     "none"  None            "int" an int          "str" a str           *)
(*     "list"  a list of ints  "opaque" an object the codec does not know  *)
(*     "dict"  the dict {"n": n}                                           *)
(*   JSON value:    [j |-> kind, n |-> number, s |-> text],                *)
(*                  kinds null num str arr obj                             *)
(*   A state string is [txt |-> "json", jv |-> JSON value] or Garbage      *)
(***************************************************************************)
PyNone == [k |-> "none", n |-> 0, s |-> ""]
PyInt(n) == [k |-> "int", n |-> n, s |-> ""]
PyStr(s) == [k |-> "str", n |-> 0, s |-> s]
\* the list [n]
PyList(n) == [k |-> "list", n |-> n, s |-> ""]
PyOpaque == [k |-> "opaque", n |-> 0, s |-> ""]
\* the dict {"n": n}
PyDict(n) == [k |-> "dict", n |-> n, s |-> ""]

JNull == [j |-> "null", n |-> 0, s |-> ""]
JNum(n) == [j |-> "num", n |-> n, s |-> ""]
JStr(s) == [j |-> "str", n |-> 0, s |-> s]
JArr(n) == [j |-> "arr", n |-> n, s |-> ""]
JObj(n) == [j |-> "obj", n |-> n, s |-> ""]

Garbage == [txt |-> "garbage", jv |-> JNull]
\* the None a state-string attribute holds before setup
NoStateStr == [txt |-> "None", jv |-> JNull]

Raise(msg) == [ok |-> FALSE, val |-> PyNone, err |-> msg]
Return(val) == [ok |-> TRUE, val |-> val, err |-> ""]

\* type(value)
TypeOf(val) ==
  CASE val.k = "none" -> "NoneType"
    [] val.k = "int" -> "int"
    [] val.k = "str" -> "str"
    [] val.k = "list" -> "list"
    [] val.k = "dict" -> "dict"
    [] OTHER -> "Opaque"

\* history.py dehydrate_json, on the values above (no nesting: a list holds
\* ints, so the `seen` set never meets an identity twice)
dehydrate_json(value) ==
  CASE value.k = "list" -> Return(JArr(value.n))
    [] value.k = "dict" -> Return(JObj(value.n))
    [] value.k = "int" -> Return(JNum(value.n))
    [] value.k = "str" -> Return(JStr(value.s))
    [] value.k = "none" -> Return(JNull)
    [] OTHER -> Raise("Error while serializing state")

\* history.py rehydrate_json against a bare class (type(initial_state) never
\* carries __args__ or __origin__, and no state here is a dataclass: a dict
\* leaves by the last else of its branch)
rehydrate_json(value, new_type) ==
  CASE value.j = "arr" -> Raise("Error while restoring state")
    [] value.j = "obj" -> Return(PyDict(value.n))
    [] value.j = "str" -> Return(PyStr(value.s))
    [] value.j = "num" -> Return(PyInt(value.n))
    [] value.j = "null" -> Return(PyNone)
    [] OTHER -> Raise("Error while restoring state")

\* json.dumps / json.loads
json_dumps(jv) == [txt |-> "json", jv |-> jv]
json_loads(text) == IF text.txt = "json" THEN [ok |-> TRUE, val |-> text.jv, err |-> ""]
                    ELSE [ok |-> FALSE, val |-> Garbage.jv, err |-> "JSONDecodeError"]

\* Server.dump_state, as a result: the state string or the error
dump_value(value) ==
  LET d == dehydrate_json(value)
  IN IF d.ok THEN [ok |-> TRUE, val |-> json_dumps(d.val), err |-> ""]
     ELSE [ok |-> FALSE, val |-> Garbage, err |-> d.err]

\* Server.load_from_state
load_from_state(state, state_type) ==
  LET j == json_loads(state)
  IN IF j.ok THEN rehydrate_json(j.val, state_type) ELSE Raise(j.err)

(***************************************************************************)
(* The ledger: VisitedPage entries and their string form                   *)
(* Every field of a VisitedPage is text (a token sequence); None is the    *)
(* marker NoneTok.                                                         *)
(***************************************************************************)
FIELD_SEP == "|"
SNAP_SEP == "<TAB>|<TAB>"
ENTRY_SEP == "<NL>|<NL>"
NoneTok == <<"<None>">>
Timestamps == {<<"t1">>, <<"t2">>}

\* history.py VisitedPage(url, function, arguments, status, button_pressed)
VisitedPage(url, arguments, status, button_pressed) ==
  [url |-> url, arguments |-> arguments, status |-> status,
   button_pressed |-> button_pressed, original_page_content |-> NoneTok,
   old_state |-> NoneTok, started |-> <<"t1">>, stopped |-> NoneTok]

\* `x or ''`
OrEmpty(x) == IF x = NoneTok THEN <<>> ELSE x

\* VisitedPage.__str__
VisitedPage_str(vp) ==
  Join(<<vp.url, vp.arguments, vp.status, vp.button_pressed,
         OrEmpty(vp.original_page_content), OrEmpty(vp.old_state),
         vp.started, OrEmpty(vp.stopped)>>, FIELD_SEP)

\* VisitedPage.fromstr: eight "|"-separated fields, float() of the timestamps
VisitedPage_fromstr(text) ==
  LET p == Split(text, FIELD_SEP)
  IN IF Len(p) # 8 THEN [ok |-> FALSE, val |-> VisitedPage(<<>>, <<>>, <<>>, <<>>)]
     ELSE IF p[7] \notin Timestamps \/ (p[8] # <<>> /\ p[8] \notin Timestamps)
       THEN [ok |-> FALSE, val |-> VisitedPage(<<>>, <<>>, <<>>, <<>>)]
     ELSE [ok |-> TRUE,
           val |-> [url |-> p[1], arguments |-> p[2], status |-> p[3],
                    button_pressed |-> p[4],
                    original_page_content |-> IF p[5] = <<>> THEN NoneTok ELSE p[5],
                    old_state |-> p[6], started |-> p[7],
                    stopped |-> IF p[8] = <<>> THEN NoneTok ELSE p[8]]]

\* Server.stringify_history, on a list of (VisitedPage, snapshot) items
stringify_history(history) ==
  Join([i \in DOMAIN history |->
          VisitedPage_str(history[i].vp) \o <<SNAP_SEP>> \o history[i].s], ENTRY_SEP)

\* make_entry of Server.destringify_history
make_entry(line) ==
  LET p == Split(line, SNAP_SEP)
  IN IF Len(p) # 2 THEN [ok |-> FALSE, val |-> [vp |-> VisitedPage(<<>>, <<>>, <<>>, <<>>), s |-> <<>>]]
     ELSE LET e == VisitedPage_fromstr(p[1])
          IN [ok |-> e.ok, val |-> [vp |-> e.val, s |-> p[2]]]

\* Server.destringify_history
destringify_history(hist_str) ==
  IF hist_str = <<>> THEN [ok |-> TRUE, val |-> <<>>]
  ELSE LET lines == Split(hist_str, ENTRY_SEP)
           es == [i \in DOMAIN lines |-> make_entry(lines[i])]
       IN IF \A i \in DOMAIN es : es[i].ok
          THEN [ok |-> TRUE, val |-> [i \in DOMAIN es |-> es[i].val]]
          ELSE [ok |-> FALSE, val |-> <<>>]

\* the state snapshot stored beside a new entry (server.py line 543): the
\* JSON text of the state, one token
snapshot(state) ==
  LET d == dump_value(state)
  IN [ok |-> d.ok, val |-> <<ToString(d.val.jv)>>]

(***************************************************************************)
(* Dictionaries keep insertion order: a sequence of [key, val] pairs       *)
(***************************************************************************)
Keys(d) == [i \in DOMAIN d |-> d[i].key]
HasKey(d, key) == \E i \in DOMAIN d : d[i].key = key
Get(d, key) == d[CHOOSE i \in DOMAIN d : d[i].key = key].val
\* d[key] = val: an existing key keeps its place, a new key goes last
Put(d, key, val) ==
  IF HasKey(d, key)
  THEN [i \in DOMAIN d |-> IF d[i].key = key THEN [key |-> key, val |-> val] ELSE d[i]]
  ELSE Append(d, [key |-> key, val |-> val])

\* dict.update(other)
RECURSIVE dict_update(_, _)
dict_update(d, other) ==
  IF other = <<>> THEN d
  ELSE dict_update(Put(d, Head(other).key, Head(other).val), Tail(other))

(***************************************************************************)
(* The page functions an application registers.  A function has a name     *)
(* (__name__), the parameters it declares after `state`, and a body.       *)
(* Parameter kinds: PO positional-only, PK positional-or-keyword,          *)
(* VP *args, KO keyword-only, VK **kwargs.  ann is the annotation          *)
(* ("empty" when there is none); d says whether there is a default dv.     *)
(***************************************************************************)
Param(name, kind, ann, d, dv) == [name |-> name, kind |-> kind, ann |-> ann, d |-> d, dv |-> dv]

FuncTable ==
  [index  |-> [name |-> "index",  params |-> <<>>],
   bump   |-> [name |-> "bump",   params |-> <<>>],
   drift  |-> [name |-> "drift",  params |-> <<>>],
   boom   |-> [name |-> "boom",   params |-> <<>>],
   nopage |-> [name |-> "nopage", params |-> <<>>],
   opaque |-> [name |-> "opaque", params |-> <<>>],
   greet  |-> [name |-> "greet",
               params |-> <<Param("a", "PK", "int", FALSE, PyNone),
                            Param("b", "PK", "str", TRUE, PyStr("x"))>>],
   about1 |-> [name |-> "about",  params |-> <<>>],
   about2 |-> [name |-> "about",  params |-> <<>>],
   home   |-> [name |-> "home",   params |-> <<>>],
   \* def posonly(state, a, /)
   posonly |-> [name |-> "posonly", params |-> <<Param("a", "PO", "empty", FALSE, PyNone)>>],
   \* def anykw(state, a="x", **extra)
   anykw  |-> [name |-> "anykw",
               params |-> <<Param("a", "PK", "empty", TRUE, PyStr("x")),
                            Param("extra", "VK", "empty", FALSE, PyNone)>>],
   poke     |-> [name |-> "poke",     params |-> <<>>],
   pokeboom |-> [name |-> "pokeboom", params |-> <<>>],
   textpage |-> [name |-> "textpage", params |-> <<>>],
   numpage  |-> [name |-> "numpage",  params |-> <<>>],
   latetext |-> [name |-> "latetext", params |-> <<>>],
   latenum  |-> [name |-> "latenum",  params |-> <<>>]]

FuncIds == DOMAIN FuncTable

ParamsOfKind(ps, kind) ==
  LET sel == SelectSeq(ps, LAMBDA p : p.kind = kind)
  IN [i \in DOMAIN sel |-> sel[i].name]

FirstOrEmpty(names) == IF names = <<>> THEN "" ELSE names[1]

\* text of a str value, cut at the delimiter it may contain
Text(s) == IF s = "a|b" THEN <<"a", "|", "b">> ELSE <<s>>

\* history.py safe_repr of an argument value
safe_repr(val) ==
  CASE val.k = "str" -> <<"'">> \o Text(val.s) \o <<"'">>
    [] val.k = "int" -> <<ToString(val.n)>>
    [] val.k = "none" -> <<"None">>
    [] OTHER -> <<"<object>">>

IntOf == [s \in {"5", "7"} |-> IF s = "5" THEN 5 ELSE 7]

\* target_type(value): Server.try_special_conversions
try_special_conversions(val, target_type) ==
  CASE target_type = "int" ->
         IF val.k = "int" THEN Return(val)
         ELSE IF val.k = "str" /\ val.s \in DOMAIN IntOf THEN Return(PyInt(IntOf[val.s]))
         ELSE Raise("invalid literal for int()")
    [] target_type = "str" ->
         IF val.k = "str" THEN Return(val)
         ELSE IF val.k = "int" THEN Return(PyStr(ToString(val.n)))
         ELSE Return(PyStr("None"))
    [] OTHER -> Raise("not constructible")

\* inspect.signature(f).parameters as {name: annotation}, `state` included
ExpectedTypes(fid) ==
  LET ps == FuncTable[fid].params
  IN [n \in {"state"} \cup {ps[i].name : i \in DOMAIN ps} |->
        IF n = "state" THEN "empty"
        ELSE ps[CHOOSE i \in DOMAIN ps : ps[i].name = n].ann]

UnchangedRecord(param, val, expected_type) ==
  [kind |-> "Unchanged", parameter |-> param, value |-> val,
   expected_type |-> expected_type, converted_value |-> val]
ConversionRecord(param, val, expected_type, converted) ==
  [kind |-> "Conversion", parameter |-> param, value |-> val,
   expected_type |-> expected_type, converted_value |-> converted]

\* the ValueError of convert_parameter: "Could not convert {param}
\* ({val!r}) from {from_name} to {to_name}"
CouldNotConvert(param, val, from_name, to_name) ==
  [param |-> param, val |-> val, from_name |-> from_name, to_name |-> to_name]
NoConvertError == CouldNotConvert("", PyNone, "", "")

\* Server.convert_parameter: the value, and the record it appends
\* a variant that hands every value through as it came
convert_parameter_raw(param0, val, expected_types, var_arg_name) ==
  [ok |-> TRUE, val |-> val, rec |-> <<UnchangedRecord(param0, val, "None")>>,
   err |-> NoConvertError]

convert_parameter(param0, val, expected_types, var_arg_name) ==
  LET param == IF param0 \notin DOMAIN expected_types THEN var_arg_name ELSE param0
      same(v, r) == [ok |-> TRUE, val |-> v, rec |-> <<r>>, err |-> NoConvertError]
  IN IF param \in DOMAIN expected_types
     THEN LET expected_type == expected_types[param]
          IN IF expected_type = "empty"
             THEN same(val, UnchangedRecord(param, val, "empty"))
             ELSE IF TypeOf(val) # expected_type
             THEN LET c == try_special_conversions(val, expected_type)
                  IN IF c.ok
                     THEN same(c.val, ConversionRecord(param, val, expected_type, c.val))
                     ELSE [ok |-> FALSE, val |-> val, rec |-> <<>>,
                           err |-> CouldNotConvert(param, val, TypeOf(val), expected_type)]
             ELSE same(val, UnchangedRecord(param, val, "None"))
     ELSE same(val, UnchangedRecord(param, val, "None"))

\* lines 360-363: every positionally used parameter that heads the
\* positional-or-keyword list is taken off it; [0] of an empty list raises
RECURSIVE ConsumePkw(_, _)
ConsumePkw(used, pkw) ==
  IF used = <<>> THEN [ok |-> TRUE, pkw |-> pkw]
  ELSE IF pkw = <<>> THEN [ok |-> FALSE, pkw |-> pkw]
  ELSE IF pkw[1] = Head(used) THEN ConsumePkw(Tail(used), Tail(pkw))
  ELSE ConsumePkw(Tail(used), pkw)

\* lines 393-394: convert the positional values, left to right
RECURSIVE ConvertArgs(_, _, _, _, _)
ConvertArgs(used, args, types, var_pos, acc) ==
  IF args = <<>> THEN acc
  ELSE LET param == IF used = <<>> THEN "" ELSE Head(used)
           c == convert_parameter(param, Head(args), types, var_pos)
       IN IF ~c.ok THEN [acc EXCEPT !.ok = FALSE]
          ELSE ConvertArgs(IF used = <<>> THEN <<>> ELSE Tail(used), Tail(args), types, var_pos,
                           [ok |-> TRUE, vals |-> Append(acc.vals, c.val), rec |-> acc.rec \o c.rec])

\* lines 395-396: convert the keyword values, in insertion order
RECURSIVE ConvertKwargs(_, _, _, _)
ConvertKwargs(kwargs, types, var_kwd, acc) ==
  IF kwargs = <<>> THEN acc
  ELSE LET c == convert_parameter(Head(kwargs).key, Head(kwargs).val, types, var_kwd)
       IN IF ~c.ok THEN [acc EXCEPT !.ok = FALSE]
          ELSE ConvertKwargs(Tail(kwargs), types, var_kwd,
                             [ok |-> TRUE,
                              vals |-> Append(acc.vals, [key |-> Head(kwargs).key, val |-> c.val]),
                              rec |-> acc.rec \o c.rec])

\* lines 404-412: the argument summary
Representation(ps, args, kwargs) ==
  LET names == [i \in DOMAIN ps |-> ps[i].name]
      known == SelectSeq(names, LAMBDA n : HasKey(kwargs, n))
      other == SelectSeq(Keys(kwargs), LAMBDA k : k \notin Range(names))
      order == known \o other
      show(k) == \E i \in DOMAIN ps : ps[i].name = k /\ ps[i].kind \in {"KO", "VK"}
      parts == [i \in DOMAIN args |-> safe_repr(args[i])]
               \o [i \in DOMAIN order |->
                     IF show(order[i]) THEN <<order[i], "=">> \o safe_repr(Get(kwargs, order[i]))
                     ELSE safe_repr(Get(kwargs, order[i]))]
  IN Join(parts, ", ")

\* Server.prepare_args.  rec is what the call leaves in _conversion_record
\* (cleared on entry), also when it raises.
\* a variant that accepts every keyword key
unexpected_parameter_never(kwargs, expected_parameters, var_kwd_param) == FALSE

\* some key is no parameter of the handler, which has no **kwargs
unexpected_parameter(kwargs, expected_parameters, var_kwd_param) ==
  \E i \in DOMAIN kwargs :
    kwargs[i].key \notin Range(expected_parameters) /\ var_kwd_param = ""

prepare_args(fid, args0, kwargs0) ==
  LET ps == FuncTable[fid].params
      expected_parameters == [i \in DOMAIN ps |-> ps[i].name]
      var_pos_param == FirstOrEmpty(ParamsOfKind(ps, "VP"))
      var_kwd_param == FirstOrEmpty(ParamsOfKind(ps, "VK"))
      pkw0 == ParamsOfKind(ps, "PK")
      expected_pos_params == ParamsOfKind(ps, "PO") \o pkw0
      too_many == Len(expected_pos_params) < Len(args0) /\ var_pos_param = ""
      args1 == IF too_many THEN Take(args0, Len(expected_pos_params)) ELSE args0
      used_pos_params == Take(expected_pos_params, Len(args1))
      consumed == ConsumePkw(used_pos_params, pkw0)
      expected_kwd_params == consumed.pkw \o ParamsOfKind(ps, "KO")
      too_many_kw == Len(expected_kwd_params) < Len(kwargs0) /\ var_kwd_param = ""
      kwargs1 == IF too_many_kw THEN Take(kwargs0, Len(expected_kwd_params)) ELSE kwargs0
      impossible == Len(expected_parameters) < Len(args1) + Len(kwargs1)
                    /\ var_pos_param = "" /\ var_kwd_param = ""
      types == ExpectedTypes(fid)
      ca == ConvertArgs(used_pos_params, args1, types, var_pos_param,
                        [ok |-> TRUE, vals |-> <<>>, rec |-> <<>>])
      ck == ConvertKwargs(kwargs1, types, var_kwd_param,
                          [ok |-> TRUE, vals |-> <<>>, rec |-> ca.rec])
      unexpected == unexpected_parameter(kwargs1, expected_parameters, var_kwd_param)
      \* the texts handed to flash_warning; the second one is the empty
      \* string when no positional value was used (the conditional
      \* expression of lines 366-376 takes in the whole concatenation)
      warning1 == IF too_many THEN <<"expected at most N positional arguments">> ELSE <<>>
      warnings == warning1
                  \o (IF too_many_kw
                      THEN <<IF used_pos_params # <<>>
                             THEN "expected at most N remaining positional arguments"
                             ELSE "">>
                      ELSE <<>>)
      fail(rec, err, w) == [ok |-> FALSE, args |-> <<>>, kwargs |-> <<>>, arguments |-> <<>>,
                            rec |-> rec, warnings |-> w, err |-> err]
  IN IF ~consumed.ok THEN fail(<<>>, "IndexError", warning1)
     ELSE IF impossible THEN fail(<<>>, "I really thought this was impossible!", warnings)
     ELSE IF ~ca.ok THEN fail(ca.rec, "Could not convert", warnings)
     ELSE IF ~ck.ok THEN fail(ck.rec, "Could not convert", warnings)
     ELSE IF unexpected THEN fail(ck.rec, "Unexpected parameter", warnings)
     ELSE [ok |-> TRUE, args |-> ca.vals, kwargs |-> ck.vals,
           arguments |-> Representation(ps, ca.vals, ck.vals),
           rec |-> ck.rec, warnings |-> warnings, err |-> ""]

(***************************************************************************)
(* Calling a page function: Python's own binding of the call               *)
(* original_function(state, *args, **kwargs), then the body.               *)
(***************************************************************************)
\* the parameter the call binds a name or a position to, as [ok, env]
CallBinding(fid, args, kwargs) ==
  LET ps == FuncTable[fid].params
      positional == SelectSeq(ps, LAMBDA p : p.kind \in {"PO", "PK"})
      has_vp == \E i \in DOMAIN ps : ps[i].kind = "VP"
      has_vk == \E i \in DOMAIN ps : ps[i].kind = "VK"
      npos == IF Len(args) < Len(positional) THEN Len(args) ELSE Len(positional)
      by_pos == {positional[i].name : i \in 1..npos}
      by_name == {ps[i].name : i \in {j \in DOMAIN ps : ps[j].kind \in {"PK", "KO"}}}
      po_names == {ps[i].name : i \in {j \in DOMAIN ps : ps[j].kind = "PO"}}
      too_many == Len(args) > Len(positional) /\ ~has_vp
      duplicate == \E i \in DOMAIN kwargs : kwargs[i].key \in by_name \cap by_pos
      unknown == \E i \in DOMAIN kwargs :
                   kwargs[i].key \notin by_name /\ ~has_vk
      missing == \E i \in DOMAIN ps :
                   /\ ps[i].kind \in {"PO", "PK", "KO"}
                   /\ ~ps[i].d
                   /\ ps[i].name \notin by_pos
                   /\ ~(ps[i].name \in by_name /\ HasKey(kwargs, ps[i].name))
      bound(n) == IF \E i \in 1..npos : positional[i].name = n
                  THEN args[CHOOSE i \in 1..npos : positional[i].name = n]
                  ELSE IF n \in by_name /\ HasKey(kwargs, n) THEN Get(kwargs, n)
                  ELSE ps[CHOOSE i \in DOMAIN ps : ps[i].name = n].dv
  IN [ok |-> ~(too_many \/ duplicate \/ unknown \/ missing),
      env |-> [n \in (by_name \cup po_names) |-> bound(n)]]

\* a handler's return value: a Page, None, or an exception.  shape says what
\* the content field is: "list" (a list of strings and components), "str",
\* or "baditem" (a list that holds something else, here the int 42); msg is
\* the text of the exception
PageOf(state, content) ==
  [kind |-> "page", state |-> state, content |-> content, shape |-> "list", msg |-> ""]
NoPage == [kind |-> "none", state |-> PyNone, content |-> <<>>, shape |-> "", msg |-> ""]
RaisedWith(msg) ==
  [kind |-> "raise", state |-> PyNone, content |-> <<>>, shape |-> "", msg |-> msg]
Raised == RaisedWith("exception in the page function")

FoundStr == "The content of a page must be a list of strings or components. Found str instead."
FoundIntAt0 ==
  "The content of a page must be a list of strings or components. Found int at index 0 instead."

\* Page.__init__(state, content): the constructor checks the content
Page(state, content, shape) ==
  IF shape = "str" THEN RaisedWith(FoundStr)
  ELSE IF shape = "baditem" THEN RaisedWith(FoundIntAt0)
  ELSE PageOf(state, content)

\* page.content = ... on a constructed page: nothing is checked
SetContent(page, content, shape) == [page EXCEPT !.content = content, !.shape = shape]

\* what the state object handed to a page function holds when the call is
\* over: poke and pokeboom write to it, the others leave it alone
Mutation(fid, state) ==
  IF fid \in {"poke", "pokeboom"} /\ state.k = "dict" THEN PyDict(1 - state.n) ELSE state

\* the bodies of the page functions
Body(fid, state, env) ==
  CASE fid = "index" -> PageOf(state, <<"home">>)
    [] fid = "bump" -> PageOf(IF state.k = "int" THEN PyInt(1 - state.n) ELSE state, <<"bumped">>)
    [] fid = "drift" -> PageOf(PyStr("s"), <<"drift">>)
    [] fid = "boom" -> Raised
    [] fid = "nopage" -> NoPage
    [] fid = "opaque" -> PageOf(PyOpaque, <<"opaque">>)
    [] fid = "greet" -> PageOf(state, <<"hello">> \o safe_repr(env["a"]) \o safe_repr(env["b"]))
    [] fid = "about1" -> PageOf(state, <<"about v1">>)
    [] fid = "about2" -> PageOf(state, <<"about v2">>)
    [] fid = "home" -> PageOf(state, <<"home text">>)
    [] fid = "posonly" -> PageOf(state, <<"pos">> \o safe_repr(env["a"]))
    [] fid = "anykw" -> PageOf(state, <<"any">> \o safe_repr(env["a"]))
    \* state["n"] = 1 - state["n"]; return Page(state, ["poked"])
    [] fid = "poke" -> PageOf(Mutation(fid, state), <<"poked">>)
    \* state["n"] = 1 - state["n"]; raise ...
    [] fid = "pokeboom" -> Raised
    \* return Page(state, "hello")
    [] fid = "textpage" -> Page(state, <<"hello">>, "str")
    \* return Page(state, [42])
    [] fid = "numpage" -> Page(state, <<"42">>, "baditem")
    \* p = Page(state, ["x"]); p.content = "hello"; return p
    [] fid = "latetext" -> SetContent(Page(state, <<"x">>, "list"), <<"hello">>, "str")
    \* p = Page(state, ["x"]); p.content.append(42); return p
    [] fid = "latenum" -> SetContent(Page(state, <<"x">>, "list"), <<"x", "42">>, "baditem")

\* original_function(state, *args, **kwargs)
CallFunction(fid, state, args, kwargs) ==
  LET b == CallBinding(fid, args, kwargs)
  IN IF b.ok THEN Body(fid, state, b.env) ELSE Raised

(***************************************************************************)
(* The Server object                                                       *)
(*   routes            dict url -> target, in insertion order; a target is *)
(*                     a wrapped page function or the reset lambda         *)
(*   _page_history     the list's items; _page_history_is names the frame  *)
(*                     object the attribute is the same list as ("loc":    *)
(*                     that request's decoded list, "new": the list that   *)
(*                     request built around its visiting_page, whose last  *)
(*                     item is that live object while live is TRUE)        *)
(***************************************************************************)
Slots == {"A", "B"}
Unset == "<unset>"
NoAlias == [slot |-> "", which |-> "none", live |-> FALSE]

PageTarget(fid) == [kind |-> "page", func |-> fid]
ResetTarget == [kind |-> "reset", func |-> ""]

\* Server.__init__
Server0 ==
  [routes |-> <<>>, original_routes |-> <<>>, _state |-> PyNone,
   _initial_state |-> NoStateStr, _initial_state_type |-> Unset,
   _state_history |-> <<>>, _page_history |-> <<>>, _page_history_is |-> NoAlias,
   _conversion_record |-> <<>>,
   production |-> FALSE, configuration |-> [debug |-> "default"]]

\* drafter.urls.friendly_urls: a route token starts with "/"
friendly_urls(url) ==
  CASE url = "about" -> "/about"
    [] url = "bump" -> "/bump"
    [] url = "drift" -> "/drift"
    [] url = "boom" -> "/boom"
    [] url = "nopage" -> "/nopage"
    [] url = "opaque" -> "/opaque"
    [] url = "greet" -> "/greet"
    [] url = "posonly" -> "/posonly"
    [] url = "anykw" -> "/anykw"
    [] OTHER -> url

\* Server.add_route
add_route(srv, url, func) ==
  IF HasKey(srv.routes, url)
  THEN [ok |-> FALSE, srv |-> srv]
  ELSE [ok |-> TRUE,
        srv |-> [srv EXCEPT !.original_routes = Append(@, [key |-> url, val |-> func]),
                            !.routes = Put(@, friendly_urls(url), PageTarget(func))]]

\* Server.clear_routes
clear_routes(srv) == [srv EXCEPT !.routes = <<>>]

\* deploy_site: hide_debug_information() and the production flag (the image
\* folder plays no part here; the value configuration.debug starts with is
\* set by ServerConfiguration and is called "default")
deploy_site(srv) == [srv EXCEPT !.configuration.debug = "False", !.production = TRUE]

\* Server.setup: the fields are assigned before the route table is looked at
setup(srv, initial_state) ==
  LET d == dump_value(initial_state)
      s1 == [srv EXCEPT !._state = initial_state]
      s2 == [s1 EXCEPT !._initial_state = d.val, !._initial_state_type = TypeOf(initial_state)]
      r3 == Put(s2.routes, "/--reset", ResetTarget)
      r4 == IF HasKey(r3, "/") THEN r3 ELSE Put(r3, "/", r3[1].val)
  IN IF ~d.ok THEN [ok |-> FALSE, srv |-> s1]
     ELSE IF s2.routes = <<>> THEN [ok |-> FALSE, srv |-> s2]
     ELSE [ok |-> TRUE, srv |-> [s2 EXCEPT !.routes = r4]]

(***************************************************************************)
(* Applications: the start-up code of a program, a list of add_route,      *)
(* reset, deploy_site and setup calls run in order when the module is      *)
(* loaded.                                                                 *)
(***************************************************************************)
Add(url, func) == [op |-> "add", url |-> url, func |-> func, init |-> PyNone]
Setup(init) == [op |-> "setup", url |-> "", func |-> "", init |-> init]
\* deploy_site() called by the start-up code
Deploy == [op |-> "deploy", url |-> "", func |-> "", init |-> PyNone]
\* get_main_server().reset() called by the start-up code
ResetCall == [op |-> "reset", url |-> "", func |-> "", init |-> PyNone]

Apps ==
  [main      |-> <<Add("/", "index"), Add("bump", "bump"), Add("drift", "drift"),
                   Add("greet", "greet"), Add("nopage", "nopage"),
                   Add("opaque", "opaque"), Add("posonly", "posonly"),
                   Add("anykw", "anykw"), Setup(PyInt(0))>>,
   flaky     |-> <<Add("/", "boom"), Add("bump", "bump"), Setup(PyInt(0))>>,
   samename  |-> <<Add("about", "about1"), Add("about", "about2"), Setup(PyInt(0))>>,
   sameurl   |-> <<Add("/about", "about1"), Add("/about", "about2"), Setup(PyInt(0))>>,
   userreset |-> <<Add("/--reset", "index"), Add("bump", "bump"), Setup(PyInt(0))>>,
   site      |-> <<Add("/", "home"), Add("/about", "about1"), Setup(PyInt(0))>>,
   listy     |-> <<Add("/", "index"), Setup(PyList(1))>>,
   empty     |-> <<Setup(PyInt(0))>>,
   early     |-> <<Add("/", "index"), ResetCall, Setup(PyInt(0))>>,
   deployed  |-> <<Add("/", "boom"), Add("bump", "bump"), Deploy, Setup(PyInt(0))>>,
   dicty     |-> <<Add("/", "poke"), Add("/pokeboom", "pokeboom"), Setup(PyDict(0))>>,
   shapes    |-> <<Add("/", "textpage"), Add("/numpage", "numpage"),
                   Add("/latetext", "latetext"), Add("/latenum", "latenum"),
                   Setup(PyInt(0))>>]

AppNames == DOMAIN Apps

(***************************************************************************)
(* One request: render_route and the drafter_page wrapper it calls.        *)
(* A frame holds the locals of the request a slot is serving.              *)
(*   pc: idle, resolve, reset, bind, create, verify, adopt, render,        *)
(*       finish, return, error, done (render_route returned `out`),        *)
(*       raised (render_route raised to its caller)                        *)
(*   calls counts the calls of the page function; phase names the          *)
(*   lifecycle phase the request is in or failed in (NotSetUp and          *)
(*   Restoring are the two places before the lifecycle where render_route  *)
(*   can raise).  fresh says that the server held no state history when    *)
(*   the request arrived, stale that its conversion record still held      *)
(*   entries, state_history0 what its state history held; warnings are     *)
(*   the texts the request's binding printed through flash_warning.        *)
(***************************************************************************)
Request(route, state_str, page_history_str, args, kwargs, inputs) ==
  [route |-> route, state_str |-> state_str, page_history_str |-> page_history_str,
   args |-> args, kwargs |-> kwargs, inputs |-> inputs]

NoRequest == Request("", Garbage, <<>>, <<>>, <<>>, <<>>)
NoContent == [kind |-> "none", title |-> "", func |-> "", body |-> <<>>]
NoOut == [content |-> NoContent, state |-> Garbage, history |-> <<>>]

Frame0 ==
  [pc |-> "idle", req |-> NoRequest, state |-> PyNone, page_history |-> <<>>,
   py_args |-> <<>>, py_kwargs |-> <<>>, func |-> "", from_reset |-> FALSE,
   args |-> <<>>, kwargs |-> <<>>, arguments |-> <<>>,
   visiting_page |-> VisitedPage(<<>>, <<>>, <<>>, <<>>), visiting |-> FALSE,
   page |-> NoPage, content |-> NoContent, error |-> NoContent, out |-> NoOut,
   calls |-> 0, phase |-> "", fresh |-> FALSE, stale |-> FALSE, warnings |-> <<>>,
   state_history0 |-> <<>>]

\* the error titles of the lifecycle phases (server.py lines 539-567, 649, 1070)
TitleUnknown == "Unknown Error"
TitleBinding == "Error preparing arguments for page"
TitleCreating == "Error creating page"
TitleVerifying == "Error after creating page"
TitleContent == "Error verifying content"
TitleRendering == "Error rendering content"

\* a DrafterError whose title is lost: every error reads "Unknown Error"
DrafterErrorUntitled(title, func, msg) ==
  [kind |-> "error", title |-> TitleUnknown, func |-> func, body |-> <<msg>>, tb |-> TRUE]

\* DrafterError(title, error, original_function, server), as the content
\* str(e) renders: the title, the function name, the message and, in
\* <pre>{self.tb}</pre>, the traceback taken in __post_init__ (tb says that
\* the content holds it; __str__ asks no flag of the server).  The debug
\* section that __str__ appends (make_debug_page) and the page template are
\* left out: content is compared as "which page" or "which error".
DrafterError(title, func, msg) ==
  [kind |-> "error", title |-> title, func |-> func, body |-> <<msg>>, tb |-> TRUE]

Active(fr) == fr.pc \notin {"idle", "done", "raised"}

With(G, s, srv, fr) == [server |-> srv, frames |-> [G.frames EXCEPT ![s] = fr]]

\* the request fails with a DrafterError that render_route will turn into content
Fail(G, s, srv, fr, title, func, msg) ==
  With(G, s, srv, [fr EXCEPT !.pc = "error", !.error = DrafterError(title, func, msg)])

\* a mutation of slot s's visiting_page, seen through every list that holds it
UpdateVisiting(srv, s, vp) ==
  IF srv._page_history_is = [slot |-> s, which |-> "new", live |-> TRUE]
  THEN [srv EXCEPT !._page_history[Len(srv._page_history)].vp = vp]
  ELSE srv

\* render_route lines 1052-1061: restore the state and the ledger, decode
\* the arguments
\* a variant that takes every server for one that was set up
not_setup_never(srv) == FALSE

\* `server._initial_state_type is None` of render_route
not_setup(srv) == srv._initial_state_type = Unset

DoStart(G, s, req) ==
  LET srv == G.server
      fr == [Frame0 EXCEPT !.req = req, !.fresh = (srv._state_history = <<>>),
                          !.stale = (srv._conversion_record # <<>>),
                          !.state_history0 = srv._state_history]
      st == load_from_state(req.state_str, srv._initial_state_type)
      srv1 == [srv EXCEPT !._state = st.val]
      h == destringify_history(req.page_history_str)
      srv2 == [srv1 EXCEPT !._page_history = h.val,
                           !._page_history_is = [slot |-> s, which |-> "loc", live |-> FALSE]]
  IN IF not_setup(srv)
     THEN With(G, s, srv, [fr EXCEPT !.pc = "raised", !.phase = "NotSetUp"])
     ELSE IF ~st.ok THEN With(G, s, srv, [fr EXCEPT !.pc = "raised", !.phase = "Restoring"])
     ELSE IF ~h.ok
       THEN With(G, s, srv1, [fr EXCEPT !.pc = "raised", !.state = st.val, !.phase = "Restoring"])
     ELSE With(G, s, srv2,
               [fr EXCEPT !.pc = "resolve", !.state = st.val, !.page_history = h.val,
                          !.py_args = req.args,
                          !.py_kwargs = dict_update(req.kwargs, req.inputs),
                          !.phase = "ResolvingRoute"])

\* render_route line 1064: server.routes[route](state, page_history, *py_args, **py_kwargs)
DoResolve(G, s) ==
  LET srv == G.server
      fr == G.frames[s]
      route == fr.req.route
      target == Get(srv.routes, route)
  IN IF fr.pc # "resolve" THEN G
     ELSE IF ~HasKey(srv.routes, route)
       THEN Fail(G, s, srv, fr, TitleUnknown, route, "KeyError")
     ELSE IF target.kind = "reset"
       THEN IF fr.py_args # <<>> \/ fr.py_kwargs # <<>>
            THEN Fail(G, s, srv, fr, TitleUnknown, route, "TypeError")
            ELSE With(G, s, srv, [fr EXCEPT !.pc = "reset"])
     ELSE With(G, s, srv, [fr EXCEPT !.pc = "bind", !.func = target.func])

\* Server.reset, called by the "/--reset" lambda
DoReset(G, s) ==
  LET srv == G.server
      fr == G.frames[s]
      st == load_from_state(srv._initial_state, srv._initial_state_type)
      alias == srv._page_history_is
      srv1 == [srv EXCEPT !._state = st.val, !._state_history = <<>>,
                          !._page_history = <<>>, !._page_history_is.live = FALSE,
                          !._conversion_record = <<>>]
      \* list.clear() empties the list object itself, whoever else holds it
      cleared == [t \in Slots |->
                    IF alias.which = "loc" /\ alias.slot = t
                    THEN [G.frames[t] EXCEPT !.page_history = <<>>]
                    ELSE G.frames[t]]
      G1 == [server |-> srv1, frames |-> cleared]
      home == Get(srv.routes, "/")
  IN IF fr.pc # "reset" THEN G
     ELSE IF srv._initial_state = NoStateStr \/ srv._initial_state_type = Unset
       THEN Fail(G, s, srv, fr, TitleUnknown, fr.req.route, "You can't reset if you haven't setup!")
     ELSE IF ~st.ok
       THEN Fail(G, s, srv, fr, TitleUnknown, fr.req.route, st.err)
     ELSE IF home.kind = "reset"
       \* '/' is the reset lambda itself: reset() calls itself until RecursionError
       THEN Fail(G1, s, srv1, cleared[s], TitleUnknown, fr.req.route, "RecursionError")
     ELSE With(G1, s, srv1,
               [cleared[s] EXCEPT !.pc = "bind", !.func = home.func, !.from_reset = TRUE,
                                  !.state = st.val, !.py_args = <<>>, !.py_kwargs = <<>>])

\* a binding step that records the visit before it reports the failure
\* a variant that leaves the earlier entries in the record
conversion_record_keep(rec) == rec

\* self._conversion_record.clear() at the head of prepare_args
conversion_record_clear(rec) == <<>>

DoBindEntryFirst(G, s) ==
  LET srv == G.server
      fr == G.frames[s]
      b == prepare_args(fr.func, fr.py_args, fr.py_kwargs)
      vp == VisitedPage(<<FuncTable[fr.func].name>>, <<>>, <<"Creating Page">>, <<>>)
      rec == conversion_record_clear(srv._conversion_record) \o b.rec
      srv1 == [srv EXCEPT !._conversion_record = rec,
                          !._page_history = Append(fr.page_history, [vp |-> vp, s |-> <<>>])]
      fr1 == [fr EXCEPT !.phase = "BindingArguments", !.warnings = b.warnings]
  IN IF fr.pc # "bind" THEN G
     ELSE IF ~b.ok
       THEN Fail(G, s, srv1, fr1, TitleBinding, FuncTable[fr.func].name, b.err)
     ELSE With(G, s, [srv EXCEPT !._conversion_record = rec],
               [fr1 EXCEPT !.pc = "create", !.args = b.args, !.kwargs = b.kwargs,
                           !.arguments = b.arguments])

\* drafter_page lines 536-539
DoBind(G, s) ==
  LET srv == G.server
      fr == G.frames[s]
      b == prepare_args(fr.func, fr.py_args, fr.py_kwargs)
      srv1 == [srv EXCEPT !._conversion_record = conversion_record_clear(srv._conversion_record) \o b.rec]
      fr1 == [fr EXCEPT !.phase = "BindingArguments", !.warnings = b.warnings]
  IN IF fr.pc # "bind" THEN G
     ELSE IF ~b.ok
       THEN Fail(G, s, srv1, fr1, TitleBinding, FuncTable[fr.func].name, b.err)
     ELSE With(G, s, srv1,
               [fr1 EXCEPT !.pc = "create", !.args = b.args, !.kwargs = b.kwargs,
                           !.arguments = b.arguments])

\* a creation step whose new list holds the new entry alone
\* a variant that takes the ledger's snapshot from the state as the page
\* function left it
entry_state_after(before, after) == after

\* the state the new ledger entry records: the entry is built (line 543)
\* before the page function is called (line 545)
entry_state(before, after) == before

DoCreateDropsLedger(G, s) ==
  LET srv == G.server
      fr == G.frames[s]
      name == FuncTable[fr.func].name
      vp == VisitedPage(<<name>>, fr.arguments, <<"Creating Page">>, <<>>)
      after == Mutation(fr.func, fr.state)
      snap == snapshot(entry_state(fr.state, after))
      srv1 == [srv EXCEPT !._page_history = <<[vp |-> vp, s |-> snap.val]>>,
                          !._page_history_is = [slot |-> s, which |-> "new", live |-> TRUE],
                          !._state = IF @ = fr.state THEN after ELSE @]
      page == CallFunction(fr.func, fr.state, fr.args, fr.kwargs)
      fr1 == [fr EXCEPT !.visiting_page = vp, !.visiting = TRUE, !.phase = "CreatingPage",
                        !.calls = @ + 1, !.state = after]
  IN IF fr.pc # "create" THEN G
     ELSE IF ~snap.ok
       THEN Fail(G, s, srv, [fr EXCEPT !.phase = "CreatingPage"], TitleUnknown, fr.req.route, "ValueError")
     ELSE IF page.kind = "raise"
       THEN Fail(G, s, srv1, fr1, TitleCreating, name, page.msg)
     ELSE With(G, s, srv1, [fr1 EXCEPT !.pc = "verify", !.page = page])

\* drafter_page lines 541-552: the ledger entry, the new list, the call
DoCreate(G, s) ==
  LET srv == G.server
      fr == G.frames[s]
      name == FuncTable[fr.func].name
      vp == VisitedPage(<<name>>, fr.arguments, <<"Creating Page">>, <<>>)
      after == Mutation(fr.func, fr.state)
      snap == snapshot(entry_state(fr.state, after))
      base == IF fr.from_reset THEN <<>> ELSE fr.page_history
      \* server._state is the object the page function writes to
      srv1 == [srv EXCEPT !._page_history = Append(base, [vp |-> vp, s |-> snap.val]),
                          !._page_history_is = [slot |-> s, which |-> "new", live |-> TRUE],
                          !._state = IF @ = fr.state THEN after ELSE @]
      page == CallFunction(fr.func, fr.state, fr.args, fr.kwargs)
      fr1 == [fr EXCEPT !.visiting_page = vp, !.visiting = TRUE, !.phase = "CreatingPage",
                        !.calls = @ + 1, !.state = after]
  IN IF fr.pc # "create" THEN G
     ELSE IF ~snap.ok
       THEN Fail(G, s, srv, [fr EXCEPT !.phase = "CreatingPage"], TitleUnknown, fr.req.route, "ValueError")
     ELSE IF page.kind = "raise"
       THEN Fail(G, s, srv1, fr1, TitleCreating, name, page.msg)
     ELSE With(G, s, srv1, [fr1 EXCEPT !.pc = "verify", !.page = page])

\* format_page_content(page) as stored by VisitedPage.update
PageRepr(page) ==
  <<"Page(state=">> \o safe_repr(page.state) \o <<", content=">>
  \o Flatten([i \in DOMAIN page.content |-> Text(page.content[i])]) \o <<")">>

\* VisitedPage.update
update(vp, new_status, page) ==
  [vp EXCEPT !.status = <<new_status>>,
             !.original_page_content = IF page.kind = "none" THEN @ ELSE PageRepr(page)]

\* an update that forgets to write the status
update_status_lost(vp, new_status) == vp

\* VisitedPage.update without a page
update_status(vp, new_status) == [vp EXCEPT !.status = <<new_status>>]

\* a finish that leaves the entry as it was
finish_nothing(vp, new_status) == vp

\* VisitedPage.finish
finish(vp, new_status) == [vp EXCEPT !.status = <<new_status>>, !.stopped = <<"t2">>]

\* the two messages of "Error after creating page"
NotAPage == "The server did not return a Page object"
TypeChanged == "The state object's type changed from its previous type"

\* Server.verify_page_state_history: TRUE when the check raises
verify_page_state_history(srv, page) ==
  /\ srv._state_history # <<>>
  /\ TypeOf(page.state) # TypeOf(srv._state_history[Len(srv._state_history)])

ContentIsStr == "the content field was a string"
ContentBadItem == "One of those items is not a string or a content object"

\* the content checks of verify_page_result: the message, "" when there is none
verify_page_content(page) ==
  IF page.shape = "str" THEN ContentIsStr
  ELSE IF page.shape = "baditem" THEN ContentBadItem
  ELSE ""

\* Server.verify_page_result: TRUE when it raises
verify_page_result(srv, page) ==
  IF page.kind # "page" THEN TRUE
  ELSE verify_page_state_history(srv, page) \/ verify_page_content(page) # ""

\* drafter_page lines 553-560
DoVerify(G, s) ==
  LET srv == G.server
      fr == G.frames[s]
      vp == update(fr.visiting_page, "Verifying Page Result", fr.page)
      srv1 == UpdateVisiting(srv, s, vp)
      fr1 == [fr EXCEPT !.visiting_page = vp, !.phase = "VerifyingPageResult"]
  IN IF fr.pc # "verify" THEN G
     ELSE IF verify_page_result(srv, fr.page)
       THEN Fail(G, s, srv1, fr1, TitleVerifying, FuncTable[fr.func].name,
                 IF fr.page.kind # "page" THEN NotAPage
                 ELSE IF verify_page_state_history(srv, fr.page) THEN TypeChanged
                 ELSE verify_page_content(fr.page))
     ELSE With(G, s, srv1, [fr1 EXCEPT !.pc = "adopt"])

\* drafter_page lines 561-563
DoAdopt(G, s) ==
  LET srv == G.server
      fr == G.frames[s]
      vp == update_status(fr.visiting_page, "Rendering Page Content")
      srv1 == [srv EXCEPT !._state_history = Append(@, fr.page.state),
                          !._state = fr.page.state]
  IN IF fr.pc # "adopt" THEN G
     ELSE With(G, s, UpdateVisiting(srv1, s, vp),
               [fr EXCEPT !.pc = "render", !.visiting_page = vp,
                          !.phase = "RenderingPageContent"])

\* Page.render_content: a paragraph for every text item
render_content(page) ==
  Flatten([i \in DOMAIN page.content |-> <<"<p>">> \o Text(page.content[i]) \o <<"</p>">>])

\* drafter_page lines 564-567: self.dump_state() reads the server's _state
DoRender(G, s) ==
  LET srv == G.server
      fr == G.frames[s]
      name == FuncTable[fr.func].name
      d == dump_value(srv._state)
  IN IF fr.pc # "render" THEN G
     ELSE IF ~d.ok THEN Fail(G, s, srv, fr, TitleRendering, name, d.err)
     ELSE With(G, s, srv,
               [fr EXCEPT !.pc = "finish",
                          !.content = [kind |-> "page", title |-> "", func |-> name,
                                       body |-> render_content(fr.page)]])

\* drafter_page lines 568-572
DoFinish(G, s) ==
  LET srv == G.server
      fr == G.frames[s]
      vp == finish(fr.visiting_page, "Finished Page Load")
  IN IF fr.pc # "finish" THEN G
     ELSE With(G, s, UpdateVisiting(srv, s, vp),
               [fr EXCEPT !.pc = "return", !.visiting_page = vp, !.phase = "Finished"])

\* render_route line 1076
DoReturn(G, s) ==
  LET srv == G.server
      fr == G.frames[s]
      d == dump_value(srv._state)
  IN IF fr.pc # "return" THEN G
     ELSE IF ~d.ok THEN With(G, s, srv, [fr EXCEPT !.pc = "raised"])
     ELSE With(G, s, srv,
               [fr EXCEPT !.pc = "done",
                          !.out = [content |-> fr.content, state |-> d.val,
                                   history |-> stringify_history(srv._page_history)]])

\* a variant that returns the state the server holds when the error is caught
DoErrorCurrentState(G, s) ==
  LET srv == G.server
      fr == G.frames[s]
  IN IF fr.pc # "error" THEN G
     ELSE With(G, s, srv,
               [fr EXCEPT !.pc = "done",
                          !.out = [content |-> fr.error, state |-> dump_value(srv._state).val,
                                   history |-> stringify_history(srv._page_history)]])

\* render_route lines 1065-1071
DoError(G, s) ==
  LET srv == G.server
      fr == G.frames[s]
  IN IF fr.pc # "error" THEN G
     ELSE With(G, s, srv,
               [fr EXCEPT !.pc = "done",
                          !.out = [content |-> fr.error, state |-> fr.req.state_str,
                                   history |-> stringify_history(srv._page_history)]])

\* render_route from entry to exit with nothing else running
render_route(G, s, req) ==
  LET started == {DoStart(G, s, req)}
      resolved == {DoResolve(g, s) : g \in started}
      reset == {DoReset(g, s) : g \in resolved}
      bound == {DoBind(g, s) : g \in reset}
      created == {DoCreate(g, s) : g \in bound}
      verified == {DoVerify(g, s) : g \in created}
      adopted == {DoAdopt(g, s) : g \in verified}
      rendered == {DoRender(g, s) : g \in adopted}
      finished == {DoFinish(g, s) : g \in rendered}
      returned == {DoReturn(g, s) : g \in finished}
  IN CHOOSE g \in {DoError(h, s) : h \in returned} : TRUE

\* Server.reset called by the start-up code, from entry to exit: the page
\* "/" gives is built and thrown away, an exception goes to the caller
reset_call(srv) ==
  LET G == [server |-> srv, frames |-> [s \in Slots |-> [Frame0 EXCEPT !.pc = "reset"]]]
      reset == {DoReset(G, "A")}
      bound == {DoBind(g, "A") : g \in reset}
      created == {DoCreate(g, "A") : g \in bound}
      verified == {DoVerify(g, "A") : g \in created}
      adopted == {DoAdopt(g, "A") : g \in verified}
      rendered == {DoRender(g, "A") : g \in adopted}
      g == CHOOSE h \in {DoFinish(k, "A") : k \in rendered} : TRUE
  IN [ok |-> g.frames["A"].pc # "error", srv |-> g.server]

(***************************************************************************)
(* What a client sends                                                     *)
(***************************************************************************)
Arg(key, val) == [key |-> key, val |-> val]

\* positional values, keyword values and <input> values of a request
Bundles ==
  { [args |-> <<>>, kwargs |-> <<>>, inputs |-> <<>>],
    [args |-> <<PyStr("5")>>, kwargs |-> <<>>, inputs |-> <<>>],
    [args |-> <<PyStr("x")>>, kwargs |-> <<>>, inputs |-> <<>>],
    [args |-> <<>>, kwargs |-> <<Arg("a", PyStr("5"))>>, inputs |-> <<Arg("a", PyStr("7"))>>],
    [args |-> <<>>, kwargs |-> <<Arg("a", PyStr("5"))>>, inputs |-> <<Arg("b", PyStr("y"))>>],
    [args |-> <<>>, kwargs |-> <<Arg("a", PyStr("5")), Arg("b", PyStr("a|b"))>>, inputs |-> <<>>],
    [args |-> <<>>, kwargs |-> <<Arg("c", PyStr("5"))>>, inputs |-> <<>>],
    [args |-> <<PyStr("5"), PyStr("y"), PyStr("z")>>, kwargs |-> <<>>, inputs |-> <<>>],
    [args |-> <<PyStr("5")>>, kwargs |-> <<Arg("b", PyStr("y")), Arg("c", PyStr("z"))>>,
     inputs |-> <<>>],
    [args |-> <<>>, inputs |-> <<>>,
     kwargs |-> <<Arg("a", PyStr("5")), Arg("b", PyStr("y")), Arg("c", PyStr("z"))>>],
    [args |-> <<>>, inputs |-> <<>>,
     kwargs |-> <<Arg("a", PyStr("5")), Arg("c", PyStr("z")), Arg("b", PyStr("y"))>>],
    [args |-> <<>>, kwargs |-> <<Arg("a", PyStr("x")), Arg("c", PyStr("z"))>>, inputs |-> <<>>],
    [args |-> <<PyStr("5")>>, kwargs |-> <<Arg("a", PyStr("7"))>>, inputs |-> <<>>] }

StateStrs == {json_dumps(JNum(0)), json_dumps(JNum(1)), json_dumps(JStr("s")), Garbage}

\* the server an application's start-up code leaves behind
RECURSIVE RunScript(_, _)
RunScript(srv, script) ==
  IF script = <<>> THEN srv
  ELSE LET op == Head(script)
           after == {IF op.op = "add" THEN add_route(srv, op.url, op.func).srv
                     ELSE IF op.op = "reset" THEN reset_call(srv).srv
                     ELSE IF op.op = "deploy" THEN deploy_site(srv)
                     ELSE setup(srv, op.init).srv}
       IN CHOOSE r \in {RunScript(n, Tail(script)) : n \in after} : TRUE

Booted(app) == [server |-> RunScript(Server0, Apps[app]), frames |-> [s \in Slots |-> Frame0]]

\* the number of entries of a ledger string
Entries(hist_str) == IF hist_str = <<>> THEN 0 ELSE Len(Split(hist_str, ENTRY_SEP))

RouteNames(srv) == Range(Keys(srv.routes)) \cup {"/--reset", "/nope"}

EmptyBundle == [args |-> <<>>, kwargs |-> <<>>, inputs |-> <<>>]

\* the requests a client may send: every route with every well-formed state,
\* every argument bundle on the routes that look at arguments, damaged
\* state strings and ledgers on a few routes, and, once the client has a
\* response, the state and ledger of that response sent back
Requests(srv, fr) ==
  { Request(r, st, <<>>, <<>>, <<>>, <<>>) :
      r \in RouteNames(srv), st \in (StateStrs \cup {srv._initial_state}) \ {Garbage, NoStateStr} }
  \cup { Request(r, json_dumps(JNum(0)), <<>>, b.args, b.kwargs, b.inputs) :
      r \in {"/greet", "/posonly", "/anykw", "/--reset", "/bump"}, b \in Bundles }
  \cup { Request(r, st, h, <<>>, <<>>, <<>>) :
      r \in {"/", "/nope", "/--reset"},
      st \in {json_dumps(JNum(0)), Garbage}, h \in {<<>>, <<"garbage">>} }
  \cup { Request(r, fr.out.state, fr.out.history, <<>>, <<>>, <<>>) :
      r \in IF fr.pc = "done" /\ Entries(fr.out.history) \in 1..MaxLedger
            THEN {"/", "/bump", "/drift", "/nope", "/--reset"} ELSE {} }
  \cup { Request("/greet", fr.out.state, fr.out.history, b.args, b.kwargs, b.inputs) :
      b \in IF fr.pc = "done" /\ Entries(fr.out.history) \in 1..MaxLedger
            THEN Bundles ELSE {} }

(***************************************************************************)
(* Specification                                                           *)
(***************************************************************************)
(***************************************************************************)
(* The value codec on values with identity.  A composite (a list, a dict   *)
(* or a dataclass instance) is an object of a heap; its items are          *)
(* primitives, values of an unsupported class, or references to objects,   *)
(* so a value can hold itself.  A dict's keys are primitives and are left  *)
(* out: only its values can be composites.                                 *)
(***************************************************************************)
Objs == {"o1", "o2"}
Kinds == {"list", "dict", "dataclass"}

Prim == [t |-> "prim", o |-> ""]
Unsupported == [t |-> "unsupported", o |-> ""]
Ref(o) == [t |-> "ref", o |-> o]
Items == {Prim, Unsupported} \cup {Ref(o) : o \in Objs}

SeqsUpTo(S, n) == UNION {[1..k -> S] : k \in 0..n}

Heaps == [Objs -> [kind : Kinds, items : SeqsUpTo(Items, MaxItems)]]

\* the value handed to the encoder
Root == "o1"

\* the two ValueErrors of dehydrate_json
CircularError == "Error while serializing state: Circular reference detected"
UnsupportedError == "Error while serializing state: not a int, str, float, bool, list, or dataclass"

\* what a call of dehydrate_json comes to: the value it returns, as the
\* number of primitives and composites in it, or the error it raises; depth
\* is the deepest nesting of calls it reached
Encoded(size, depth) == [ok |-> TRUE, err |-> "", size |-> size, depth |-> depth]
EncodeError(err, depth) == [ok |-> FALSE, err |-> err, size |-> 0, depth |-> depth]
NoResult == [ok |-> FALSE, err |-> "", size |-> 0, depth |-> 0]

Max(a, b) == IF a >= b THEN a ELSE b

RECURSIVE dehydrate_items(_, _, _, _, _)
RECURSIVE dehydrate_json_seen(_, _, _, _)

\* an encoder that takes a composite it has met on the way down for a leaf
dehydrate_json_flat(heap, value, seen, depth) ==
  IF value.t = "ref" /\ value.o \in seen THEN Encoded(1, depth)
  ELSE IF value.t = "ref"
    THEN LET r == dehydrate_items(heap, heap[value.o].items, 1,
                                  seen \cup {value.o}, depth)
         IN IF r.ok THEN Encoded(r.size + 1, r.depth) ELSE r
  ELSE IF value.t = "prim" THEN Encoded(1, depth)
  ELSE EncodeError(UnsupportedError, depth)

\* comprehensions whose calls share one seen set: a composite met in an
\* earlier item counts as seen in the later ones
dehydrate_items_shared(heap, items, i, seen, depth) ==
  IF i > Len(items) THEN Encoded(0, depth)
  ELSE LET r == dehydrate_json_seen(heap, items[i], seen, depth + 1)
           met == IF items[i].t = "ref" THEN {items[i].o} ELSE {}
       IN IF ~r.ok THEN r
          ELSE LET rest == dehydrate_items(heap, items, i + 1, seen \cup met, depth)
               IN IF ~rest.ok THEN EncodeError(rest.err, Max(r.depth, rest.depth))
                  ELSE Encoded(r.size + rest.size, Max(r.depth, rest.depth))

\* the comprehensions of dehydrate_json: the items in order, each with a
\* copy of seen; the first error ends the call
dehydrate_items(heap, items, i, seen, depth) ==
  IF i > Len(items) THEN Encoded(0, depth)
  ELSE LET r == dehydrate_json_seen(heap, items[i], seen, depth + 1)
       IN IF ~r.ok THEN r
          ELSE LET rest == dehydrate_items(heap, items, i + 1, seen, depth)
               IN IF ~rest.ok THEN EncodeError(rest.err, Max(r.depth, rest.depth))
                  ELSE Encoded(r.size + rest.size, Max(r.depth, rest.depth))

\* history.py dehydrate_json(value, seen), the call at nesting `depth`; the
\* list, dict and dataclass branches add id(value) to seen and encode the
\* items in the same way
dehydrate_json_seen(heap, value, seen, depth) ==
  IF value.t = "ref" /\ value.o \in seen THEN EncodeError(CircularError, depth)
  ELSE IF value.t = "ref"
    THEN LET r == dehydrate_items(heap, heap[value.o].items, 1,
                                  seen \cup {value.o}, depth)
         IN IF r.ok THEN Encoded(r.size + 1, r.depth) ELSE r
  ELSE IF value.t = "prim" THEN Encoded(1, depth)
  ELSE EncodeError(UnsupportedError, depth)

\* no value is being encoded
CodecIdle == [pc |-> "idle", heap |-> [o \in Objs |-> [kind |-> "list", items |-> <<>>]],
              result |-> NoResult]

G0 == [server |-> server, frames |-> frames]

Becomes(G) == server' = G.server /\ frames' = G.frames

Quiet == \A s \in Slots : ~Active(frames[s])

Init ==
  /\ server = Server0
  /\ frames = [s \in Slots |-> Frame0]
  /\ prog \in {[app |-> a, pc |-> 1, raised |-> FALSE] : a \in AppNames}
  /\ codec = CodecIdle

\* the next start-up call is add_route
AddRoute ==
  /\ Quiet
  /\ prog.pc <= Len(Apps[prog.app])
  /\ Apps[prog.app][prog.pc].op = "add"
  /\ LET op == Apps[prog.app][prog.pc]
         r == add_route(server, op.url, op.func)
     IN /\ server' = r.srv
        /\ prog' = [prog EXCEPT !.pc = @ + 1, !.raised = ~r.ok]
  /\ UNCHANGED <<frames, codec>>

\* the next start-up call is setup
SetupServer ==
  /\ Quiet
  /\ prog.pc <= Len(Apps[prog.app])
  /\ Apps[prog.app][prog.pc].op = "setup"
  /\ LET op == Apps[prog.app][prog.pc]
         r == setup(server, op.init)
     IN /\ server' = r.srv
        /\ prog' = [prog EXCEPT !.pc = @ + 1, !.raised = ~r.ok]
  /\ UNCHANGED <<frames, codec>>

\* the next start-up call is deploy_site
DeploySite ==
  /\ Quiet
  /\ prog.pc <= Len(Apps[prog.app])
  /\ Apps[prog.app][prog.pc].op = "deploy"
  /\ server' = deploy_site(server)
  /\ prog' = [prog EXCEPT !.pc = @ + 1, !.raised = FALSE]
  /\ UNCHANGED <<frames, codec>>

\* the next start-up call is reset
ResetServer ==
  /\ Quiet
  /\ prog.pc <= Len(Apps[prog.app])
  /\ Apps[prog.app][prog.pc].op = "reset"
  /\ LET called == [server |-> server,
                    frames |-> [frames EXCEPT !["A"] = [Frame0 EXCEPT !.pc = "reset"]]]
         G == CHOOSE g \in {DoReset(c, "A") : c \in {called}} : TRUE
         raised == G.frames["A"].pc = "error"
     IN /\ server' = G.server
        \* an exception goes to the start-up code; otherwise the call of
        \* the "/" handler goes on in the steps of slot A
        /\ frames' = IF raised THEN frames ELSE G.frames
        /\ prog' = [prog EXCEPT !.pc = @ + 1, !.raised = raised]
  /\ UNCHANGED codec

\* a request arrives at slot s
Start(s) ==
  /\ ~Active(frames[s])
  /\ \E req \in Requests(server, frames[s]) :
       /\ Len(server._state_history) < MaxStateHistory \/ req.route = "/--reset"
       /\ Becomes(DoStart(G0, s, req))
  /\ UNCHANGED <<prog, codec>>

Resolve(s) == frames[s].pc = "resolve" /\ Becomes(DoResolve(G0, s)) /\ UNCHANGED <<prog, codec>>
Reset(s) == frames[s].pc = "reset" /\ Becomes(DoReset(G0, s)) /\ UNCHANGED <<prog, codec>>
Bind(s) == frames[s].pc = "bind" /\ Becomes(DoBind(G0, s)) /\ UNCHANGED <<prog, codec>>
Create(s) == frames[s].pc = "create" /\ Becomes(DoCreate(G0, s)) /\ UNCHANGED <<prog, codec>>
Verify(s) == frames[s].pc = "verify" /\ Becomes(DoVerify(G0, s)) /\ UNCHANGED <<prog, codec>>
Adopt(s) == frames[s].pc = "adopt" /\ Becomes(DoAdopt(G0, s)) /\ UNCHANGED <<prog, codec>>
Render(s) == frames[s].pc = "render" /\ Becomes(DoRender(G0, s)) /\ UNCHANGED <<prog, codec>>
Finish(s) == frames[s].pc = "finish" /\ Becomes(DoFinish(G0, s)) /\ UNCHANGED <<prog, codec>>
ReturnPage(s) == frames[s].pc = "return" /\ Becomes(DoReturn(G0, s)) /\ UNCHANGED <<prog, codec>>
ReturnError(s) == frames[s].pc = "error" /\ Becomes(DoError(G0, s)) /\ UNCHANGED <<prog, codec>>

Step(s) ==
  \/ Resolve(s) \/ Reset(s) \/ Bind(s) \/ Create(s) \/ Verify(s) \/ Adopt(s)
  \/ Render(s) \/ Finish(s) \/ ReturnPage(s) \/ ReturnError(s)

\* one request at a time
Next == AddRoute \/ ResetServer \/ DeploySite \/ SetupServer \/ Start("A") \/ Step("A")

Spec == Init /\ [][Next]_vars

(***************************************************************************)
(* Two clients at once: the application "main", one request per slot, the  *)
(* steps of the two requests interleaved in any order.                     *)
(***************************************************************************)
ConcRequests ==
  { Request(r, st, <<>>, <<>>, <<>>, <<>>) :
      r \in {"/", "/bump", "/nope", "/--reset"},
      st \in {json_dumps(JNum(0)), json_dumps(JNum(1))} }

InitConc ==
  /\ server = Server0
  /\ frames = [s \in Slots |-> Frame0]
  /\ prog = [app |-> "main", pc |-> 1, raised |-> FALSE]
  /\ codec = CodecIdle

StartConc(s) ==
  /\ frames[s].pc = "idle"
  /\ \E req \in ConcRequests : Becomes(DoStart(G0, s, req))
  /\ UNCHANGED <<prog, codec>>

NextConc == AddRoute \/ SetupServer \/ \E s \in Slots : StartConc(s) \/ Step(s)

SpecConc == InitConc /\ [][NextConc]_vars

(***************************************************************************)
(* The encoder alone: any heap of composites, the encoder applied to the   *)
(* value at Root.                                                          *)
(***************************************************************************)
InitCodec ==
  /\ server = Server0
  /\ frames = [s \in Slots |-> Frame0]
  /\ prog = [app |-> "main", pc |-> 1, raised |-> FALSE]
  /\ codec \in {[pc |-> "ready", heap |-> h, result |-> NoResult] : h \in Heaps}

\* dehydrate_json(value) is called and returns or raises
Dehydrate ==
  /\ codec.pc = "ready"
  /\ codec' = [codec EXCEPT !.pc = "done",
                            !.result = dehydrate_json_seen(codec.heap, Ref(Root), {}, 1)]
  /\ UNCHANGED <<server, frames, prog>>

NextCodec == Dehydrate

SpecCodec == InitCodec /\ [][NextCodec]_vars

(***************************************************************************)
(* Properties                                                              *)
(***************************************************************************)
\* the application's start-up code has run to its end (setup is its last call)
SetUp == prog.pc > Len(Apps[prog.app])

\* render_route has ended for this frame, on a server that was set up
Served(fr) == fr.pc \in {"done", "raised"} /\ fr.phase # "NotSetUp"

\* what the caller of render_route sees
Outcome(fr) == [raised |-> fr.pc = "raised", out |-> fr.out]

\* the same request served alone by the freshly started application
Alone(s, req) == render_route(Booted(prog.app), s, req).frames[s]

\* C1: with the executions of two requests interleaved on one server, each
\* request returns the outcome, state and ledger it returns when it is
\* executed alone.
C1_InterleavedAsAlone ==
  \A s \in Slots :
    Served(frames[s]) => Outcome(frames[s]) = Outcome(Alone(s, frames[s].req))

\* C2: for sequential requests on a set-up server, the outcome of a request
\* (raised or returned, the content, the state, the ledger) is the outcome
\* the same request has on the freshly set-up server, whatever requests were
\* served before it.
C2_OutcomeIgnoresEarlierRequests ==
  Served(frames["A"]) => Outcome(frames["A"]) = Outcome(Alone("A", frames["A"].req))

\* the first request for "/" of a fresh application start
FreshHome ==
  Alone("A", Request("/", Booted(prog.app).server._initial_state, <<>>, <<>>, <<>>, <<>>))

\* a reset request as the reset link sends it: no arguments
IsReset(req) ==
  req.route = "/--reset" /\ req.args = <<>> /\ req.kwargs = <<>> /\ req.inputs = <<>>

\* C3: from any state reached by any sequence of requests, a reset request
\* that returns gives the content and the state that the first request for
\* "/" gives on a freshly set-up application (so does every reset after it).
C3_ResetAsFreshStart ==
  LET fr == frames["A"]
  IN (fr.pc = "done" /\ fr.phase # "NotSetUp" /\ IsReset(fr.req))
       => /\ fr.out.content = FreshHome.out.content
          /\ fr.out.state = FreshHome.out.state

\* C4: when the start-up code has just called add_route with a url that an
\* earlier add_route call used, that call raised and the route table still
\* maps the route to the handler of the first call.
C4_DuplicateRegistrationFatal ==
  LET script == Apps[prog.app]
  IN \A k \in DOMAIN script : \A j \in 1..(k - 1) :
       (/\ prog.pc = k + 1
        /\ script[k].op = "add" /\ script[j].op = "add"
        /\ script[j].url = script[k].url
        /\ \A i \in 1..(j - 1) : ~(script[i].op = "add" /\ script[i].url = script[k].url))
       => /\ prog.raised
          /\ HasKey(server.routes, friendly_urls(script[k].url))
          /\ Get(server.routes, friendly_urls(script[k].url)) = PageTarget(script[j].func)

\* C5: an entry of the route table is never removed and never bound to
\* another target by a later add_route, setup or request step.
C5_RoutesOnlyAdded ==
  [][\A i \in DOMAIN server.routes :
       /\ HasKey(server'.routes, server.routes[i].key)
       /\ Get(server'.routes, server.routes[i].key) = server.routes[i].val]_vars

\* C6: for every key the request carries both as a keyword argument and as
\* an input, the keyword arguments render_route passes on hold the value of
\* the keyword argument.
C6_InputsNeverOverride ==
  LET fr == frames["A"]
  IN fr.phase \notin {"", "NotSetUp", "Restoring"} /\ ~fr.from_reset
       => \A i \in DOMAIN fr.req.kwargs :
            HasKey(fr.req.inputs, fr.req.kwargs[i].key)
              => /\ HasKey(fr.py_kwargs, fr.req.kwargs[i].key)
                 /\ Get(fr.py_kwargs, fr.req.kwargs[i].key) = fr.req.kwargs[i].val

\* the order of the phases and of the ledger entry's status
PhaseRank(phase) ==
  CASE phase = "ResolvingRoute" -> 1
    [] phase = "BindingArguments" -> 2
    [] phase = "CreatingPage" -> 3
    [] phase = "VerifyingPageResult" -> 4
    [] phase = "RenderingPageContent" -> 5
    [] phase = "Finished" -> 6
    [] OTHER -> 0

StatusRank(fr) ==
  CASE ~fr.visiting -> 0
    [] fr.visiting_page.status = <<"Creating Page">> -> 1
    [] fr.visiting_page.status = <<"Verifying Page Result">> -> 2
    [] fr.visiting_page.status = <<"Rendering Page Content">> -> 3
    [] fr.visiting_page.status = <<"Finished Page Load">> -> 4
    [] OTHER -> 99

\* the status of the last entry of a ledger string
LastStatus(hist_str) ==
  LET h == destringify_history(hist_str)
  IN IF h.ok /\ h.val # <<>> THEN h.val[Len(h.val)].vp.status ELSE <<>>

\* C7: while a request runs, its phase and the status of its ledger entry
\* stay or move one step forward in the fixed order, the handler is called
\* only from the step that follows a successful binding, and a request that
\* returns a page has the status Finished Page Load, in the ledger it
\* returns too.
C7_PhasesInOrder ==
  /\ [][LET a == frames["A"]
            b == frames'["A"]
        IN a.pc \notin {"idle", "done", "raised"}
             => /\ PhaseRank(b.phase) \in {PhaseRank(a.phase), PhaseRank(a.phase) + 1}
                /\ StatusRank(b) \in {StatusRank(a), StatusRank(a) + 1}
                /\ b.calls # a.calls
                     => a.pc = "create" /\ a.phase = "BindingArguments" /\ a.error = NoContent
       ]_vars
  /\ [](LET fr == frames["A"]
        IN fr.pc = "done" /\ fr.error = NoContent
             => /\ StatusRank(fr) = 4 /\ fr.phase = "Finished" /\ fr.calls = 1
                /\ fr.out.history = stringify_history(server._page_history)
                /\ server._page_history[Len(server._page_history)].vp.status
                     = <<"Finished Page Load">>)

C7_Witness ==
  /\ frames["A"].pc = "done" /\ frames["A"].error = NoContent
  /\ frames["A"].func = "greet" /\ frames["A"].calls = 1
  /\ LastStatus(frames["A"].out.history) = <<"Finished Page Load">>

\* the title that tags an error with the phase it was raised in
PhaseTitle(phase) ==
  CASE phase = "ResolvingRoute" -> TitleUnknown
    [] phase = "BindingArguments" -> TitleBinding
    [] phase = "CreatingPage" -> TitleCreating
    [] phase = "VerifyingPageResult" -> TitleVerifying
    [] phase = "RenderingPageContent" -> TitleRendering
    [] OTHER -> ""

\* C8: on a set-up server a request whose state and ledger were restored
\* never raises: an exception in a lifecycle phase becomes returned error
\* content whose title is the one of that phase, and the handler is called
\* at most once.
C8_PhaseErrorsReturned ==
  LET fr == frames["A"]
  IN /\ fr.pc = "raised" => fr.phase \in {"NotSetUp", "Restoring"}
     /\ fr.calls <= 1
     /\ fr.pc = "error" => fr.error.kind = "error"
     /\ (fr.pc = "done" /\ fr.error # NoContent)
          => /\ fr.out.content = fr.error
             /\ fr.out.content.kind = "error"
             /\ fr.out.content.title = PhaseTitle(fr.phase)

C8_Witness ==
  /\ frames["A"].pc = "done"
  /\ frames["A"].out.content.kind = "error"
  /\ frames["A"].out.content.title = TitleVerifying
  /\ frames["A"].calls = 1

\* C9: on a set-up server, a request whose state string or ledger string
\* cannot be decoded, and a request whose new state cannot be encoded, ends
\* with render_route returning error content, not raising.
C9_CodecErrorsReturned ==
  LET fr == frames["A"]
      bad_state == ~load_from_state(fr.req.state_str, server._initial_state_type).ok
      bad_ledger == ~destringify_history(fr.req.page_history_str).ok
      bad_result == fr.page.kind = "page" /\ ~dump_value(fr.page.state).ok
  IN (Served(fr) /\ (bad_state \/ bad_ledger \/ bad_result))
       => fr.pc = "done" /\ fr.out.content.kind = "error"

\* C10: on a set-up server, a request for a route that is not in the route
\* table returns error content, calls no handler, and returns the state
\* string and the ledger string it was given.
C10_UnknownRoute ==
  LET fr == frames["A"]
  IN (Served(fr) /\ ~HasKey(server.routes, fr.req.route))
       => /\ fr.pc = "done"
          /\ fr.out.content.kind = "error"
          /\ fr.calls = 0
          /\ fr.out.state = fr.req.state_str
          /\ fr.out.history = fr.req.page_history_str

\* the binding of the request in this frame fails
BindingFails(fr) ==
  /\ fr.func # ""
  /\ ~prepare_args(fr.func, fr.py_args, fr.py_kwargs).ok

\* C11: when the request's arguments cannot be bound to the handler's
\* parameters, the response is error content titled for argument
\* preparation and naming the handler, the handler is not called, the
\* returned ledger is the supplied ledger with no entry added, and the
\* returned state is the supplied state.
C11_BindingFailure ==
  LET fr == frames["A"]
  IN (BindingFails(fr) /\ fr.pc \in {"error", "done"})
       => /\ fr.calls = 0
          /\ ~fr.visiting
          /\ fr.error.title = TitleBinding
          /\ fr.error.func = FuncTable[fr.func].name
          /\ server._page_history = fr.page_history
          /\ fr.pc = "done"
               => /\ fr.out.content = fr.error
                  /\ fr.out.history = fr.req.page_history_str
                  /\ fr.out.state = fr.req.state_str

C11_Witness ==
  /\ frames["A"].pc = "done"
  /\ BindingFails(frames["A"])
  /\ Entries(frames["A"].req.page_history_str) = 1
  /\ frames["A"].out.content.title = TitleBinding

\* the request ended with the state-type check's error
DriftError(fr) ==
  /\ fr.error # NoContent
  /\ fr.error.title = TitleVerifying
  /\ fr.error.body = <<TypeChanged>>

\* C12: a request that carries an empty ledger (the first handler
\* invocation of a fresh session) never ends with the state-type check's
\* error, whatever requests the server served before it.
C12_FreshSessionNoDriftCheck ==
  LET fr == frames["A"]
  IN (fr.pc \in {"error", "done"} /\ fr.req.page_history_str = <<>>)
       => ~DriftError(fr)

\* the states whose snapshots the ledgers here can hold
SnapValues ==
  {PyNone, PyStr(""), PyStr("s")} \cup {PyInt(n) : n \in 0..3} \cup {PyList(n) : n \in 0..3}
    \cup {PyDict(n) : n \in 0..1}

\* the concrete type of the state a ledger entry's snapshot was taken of
SnapType(snap) == TypeOf(CHOOSE v \in SnapValues : snapshot(v).val = snap)

\* the handler of this frame returned a Page, on a request that carried a
\* ledger and did not go through reset
ReturnedAfterVisit(fr) ==
  /\ fr.pc \in {"error", "done"}
  /\ fr.calls = 1
  /\ fr.page.kind = "page"
  /\ ~fr.from_reset
  /\ fr.page_history # <<>>

\* C13: when the handler returns a state whose concrete type differs from
\* the type of the state of the last visit in the request's ledger, the
\* request ends with the state-type check's error and the supplied state is
\* returned; when the types are identical the check does not fail.
C13_DriftAgainstLedger ==
  LET fr == frames["A"]
      prev == SnapType(fr.page_history[Len(fr.page_history)].s)
  IN ReturnedAfterVisit(fr)
       => IF TypeOf(fr.page.state) # prev
          THEN /\ DriftError(fr)
               /\ fr.pc = "done" => fr.out.state = fr.req.state_str
          ELSE ~DriftError(fr)

\* the state strings that encode a state of the given concrete type
StateStrsOfType(ty) == {dump_value(v).val : v \in {w \in SnapValues : TypeOf(w) = ty}}

\* C14: every state that a successful request returns to the client has the
\* concrete type of the state given to setup (stated here for the requests
\* that themselves supplied a state of that type).
C14_ReturnedStateHasSetupType ==
  LET fr == frames["A"]
      ok == StateStrsOfType(server._initial_state_type)
  IN (fr.pc = "done" /\ fr.out.content.kind = "page" /\ fr.req.state_str \in ok)
       => fr.out.state \in ok

\* the request's route is bound to the server's reset function
ResetsServer(req) ==
  HasKey(server.routes, req.route) /\ Get(server.routes, req.route).kind = "reset"

C16_ReturnedEntriesFinished ==
  LET fr == frames["A"]
      h == destringify_history(fr.out.history)
  IN (fr.pc = "done" /\ h.ok)
       => \A i \in DOMAIN h.val :
            /\ h.val[i].vp.status = <<"Finished Page Load">>
            /\ h.val[i].vp.stopped # NoneTok

\* the fields of a ledger entry that the string form is to carry
EntryFields(e) ==
  <<e.vp.url, e.vp.arguments, e.vp.status, e.vp.button_pressed,
    e.vp.original_page_content, e.s>>

\* C17: for every ledger h the server holds when a request has ended,
\* destringify_history(stringify_history(h)) succeeds and gives as many
\* entries as h, each with the same route name, argument summary, status,
\* button label, page snapshot and state snapshot.
C17_LedgerRoundTrip ==
  LET h == server._page_history
      rt == destringify_history(stringify_history(h))
  IN frames["A"].pc = "done"
       => /\ rt.ok
          /\ Len(rt.val) = Len(h)
          /\ \A i \in DOMAIN h : EntryFields(rt.val[i]) = EntryFields(h[i])

\* the end-to-end scenario: the application with '/' -> home and
\* '/about' -> about is set up, and a request for '/' with a decodable state
\* string, no arguments and an empty ledger has ended on a server that held
\* no state history when the request arrived
HomeScenario(fr) ==
  /\ prog.app = "site"
  /\ Served(fr)
  /\ fr.fresh
  /\ fr.req.route = "/"
  /\ json_loads(fr.req.state_str).ok
  /\ fr.req.page_history_str = <<>>
  /\ fr.req.args = <<>> /\ fr.req.kwargs = <<>> /\ fr.req.inputs = <<>>

\* C18: in the end-to-end scenario the request returns home's rendered
\* text, a ledger of exactly one entry that names home and is finished, and
\* the encoding of the state that home returned.
C18_EndToEnd ==
  LET fr == frames["A"]
      h == destringify_history(fr.out.history)
      page == CallFunction("home", fr.state, <<>>, <<>>)
  IN HomeScenario(fr)
       => /\ fr.pc = "done"
          /\ fr.out.content.kind = "page"
          /\ fr.out.content.func = "home"
          /\ \E i \in DOMAIN fr.out.content.body : fr.out.content.body[i] = "home text"
          /\ h.ok /\ Len(h.val) = 1
          /\ h.val[1].vp.url = <<"home">>
          /\ h.val[1].vp.status = <<"Finished Page Load">>
          /\ h.val[1].vp.stopped # NoneTok
          /\ fr.page = page
          /\ fr.out.state = dump_value(page.state).val

C18_Witness ==
  /\ HomeScenario(frames["A"])
  /\ frames["A"].pc = "done"
  /\ frames["A"].out.content.func = "home"
  /\ frames["A"].out.state = json_dumps(JNum(0))

\* the state the application's start-up code gives to setup
SetupValue == Apps[prog.app][Len(Apps[prog.app])].init

\* C19: decoding the encoding of a value against the value's type gives the
\* value back, as the server applies it to the application state: the state
\* string recorded at setup, decoded against the recorded type, is the state
\* given to setup, and the state string a successful request returns decodes
\* against the returned state's type to that state.
C19_CodecRoundTrip ==
  LET fr == frames["A"]
  IN /\ (SetUp /\ ~prog.raised)
          => load_from_state(server._initial_state, server._initial_state_type)
               = Return(SetupValue)
     /\ (fr.pc = "done" /\ fr.out.content.kind = "page")
          => load_from_state(fr.out.state, TypeOf(fr.page.state)) = Return(fr.page.state)

\* the objects a composite holds directly
Held(heap, o) ==
  {heap[o].items[i].o : i \in {j \in DOMAIN heap[o].items : heap[o].items[j].t = "ref"}}

\* the objects reached from the objects of S in at most n steps
RECURSIVE Reach(_, _, _)
Reach(heap, S, n) ==
  IF n = 0 THEN S ELSE Reach(heap, S \cup UNION {Held(heap, o) : o \in S}, n - 1)

\* the objects inside the composite o, at any depth
Inside(heap, o) == Reach(heap, Held(heap, o), Cardinality(Objs))

\* the value at Root contains itself, or holds a composite that does
Cyclic(heap) == \E o \in {Root} \cup Inside(heap, Root) : o \in Inside(heap, o)

\* a value of an unsupported class lies in the value at Root
HoldsUnsupported(heap) ==
  \E o \in {Root} \cup Inside(heap, Root) :
    \E i \in DOMAIN heap[o].items : heap[o].items[i] = Unsupported

\* C20 as stated: dehydrate_json applied to a composite that contains itself
\* ends by raising the circular-reference error.
C20_CycleRaisesCircular ==
  (codec.pc = "done" /\ Cyclic(codec.heap))
    => /\ ~codec.result.ok
       /\ codec.result.err = CircularError

\* C20 amended: dehydrate_json applied to a composite that contains itself
\* ends after at most one nested call per composite plus one, never returns
\* a value, and raises one of its two errors: the circular-reference error
\* whenever the value holds nothing of an unsupported class.
C20_CycleAlwaysRejected ==
  (codec.pc = "done" /\ Cyclic(codec.heap))
    => /\ ~codec.result.ok
       /\ codec.result.depth <= Cardinality(Objs) + 1
       /\ codec.result.err \in {CircularError, UnsupportedError}
       /\ ~HoldsUnsupported(codec.heap) => codec.result.err = CircularError

C20_Witness ==
  /\ codec.pc = "done"
  /\ Root \in Inside(codec.heap, "o2")
  /\ "o2" \in Held(codec.heap, Root)
  /\ Root \notin Held(codec.heap, Root)
  /\ codec.result.err = CircularError
  /\ codec.result.depth = 3

\* the shape of the values of a type: a sequence or a single value
Shape(ty) == IF ty = "list" THEN "sequence" ELSE "scalar"

\* C21: the state that load_from_state restores from the request's state
\* string has the shape of the declared type: rehydrate_json raises when
\* the transport value has another shape, it never returns such a value.
C21_ShapeMismatchRaises ==
  LET fr == frames["A"]
  IN fr.pc = "resolve" => Shape(TypeOf(fr.state)) = Shape(server._initial_state_type)

\* the parameters after state that a positional value can be bound to
PositionalEligible(fid) ==
  ParamsOfKind(FuncTable[fid].params, "PO") \o ParamsOfKind(FuncTable[fid].params, "PK")

HasKind(fid, kind) == ParamsOfKind(FuncTable[fid].params, kind) # <<>>

\* the frame's request went through prepare_args
Bound(fr) == fr.func # "" /\ fr.pc \notin {"idle", "raised", "resolve", "reset", "bind"}

\* the request gave more positional values than the handler can take
ExcessPositional(fr) ==
  /\ Bound(fr)
  /\ ~HasKind(fr.func, "VP")
  /\ Len(fr.py_args) > Len(PositionalEligible(fr.func))

\* C22: when the request gives more positional values than the handler has
\* positional-eligible parameters and the handler has no variadic positional
\* parameter, prepare_args warns, keeps the leftmost values and does not
\* raise over the count: it returns, or raises for a kept value it cannot
\* convert, and then the handler is called with the kept values; for
\* greet(state, a: int, b: str = "x") the positional list ["5"] gives
\* a == 5 and b == "x".
C22_ExcessPositionalTrimmed ==
  LET fr == frames["A"]
      b == prepare_args(fr.func, fr.py_args, fr.py_kwargs)
      n == Len(PositionalEligible(fr.func))
  IN /\ ExcessPositional(fr)
          => /\ fr.warnings # <<>> /\ fr.warnings[1] # ""
             /\ ~b.ok => b.err \in {"Could not convert", "Unexpected parameter"}
             /\ b.ok => /\ Len(b.args) = n
                        /\ fr.args = b.args
                        /\ fr.pc # "create" => fr.calls = 1
     /\ (Bound(fr) /\ fr.func = "greet" /\ fr.py_args = <<PyStr("5")>> /\ fr.py_kwargs = <<>>)
          => /\ fr.args = <<PyInt(5)>>
             /\ fr.calls = 1 => fr.page.content = <<"hello", "5", "'", "x", "'">>

Min(a, b) == IF a <= b THEN a ELSE b

\* the number of keyword-eligible parameters left once the positional values
\* have taken theirs: positional-only parameters first, then
\* positional-or-keyword ones
RemainingKeywordEligible(fr) ==
  LET ps == FuncTable[fr.func].params
      po == Len(ParamsOfKind(ps, "PO"))
      pk == Len(ParamsOfKind(ps, "PK"))
      used == Min(Len(fr.py_args), po + pk)
  IN pk - Max(0, used - po) + Len(ParamsOfKind(ps, "KO"))

\* the keyword values left after the excess ones were dropped
KeptKwargs(fr) ==
  IF HasKind(fr.func, "VK") THEN fr.py_kwargs
  ELSE Take(fr.py_kwargs, Min(Len(fr.py_kwargs), RemainingKeywordEligible(fr)))

Declared(fid) == {FuncTable[fid].params[i].name : i \in DOMAIN FuncTable[fid].params}

\* a kept keyword key is none of the handler's parameter names
UndeclaredKey(fr) ==
  \E i \in DOMAIN KeptKwargs(fr) : KeptKwargs(fr)[i].key \notin Declared(fr.func)

ExcessKeyword(fr) ==
  /\ Bound(fr)
  /\ ~HasKind(fr.func, "VK")
  /\ RemainingKeywordEligible(fr) < Len(fr.py_kwargs)

\* C24: when more keyword values are supplied than keyword-eligible
\* parameters remain and the handler has no variadic keyword parameter,
\* prepare_args drops the keys inserted last until the count fits, emits a
\* warning and goes on binding the keys that are left.
C24_ExcessKeywordDropped ==
  LET fr == frames["A"]
      b == prepare_args(fr.func, fr.py_args, fr.py_kwargs)
  IN ExcessKeyword(fr)
       => /\ \E i \in DOMAIN fr.warnings :
               fr.warnings[i] = "expected at most N remaining positional arguments"
          /\ b.err \in {"", "Could not convert", "Unexpected parameter"}
          /\ b.ok => /\ Keys(fr.kwargs) = Keys(KeptKwargs(fr))
                     /\ fr.pc # "create" => fr.calls = 1

\* C25: for every handler signature and every list of positional values,
\* prepare_args binds the i-th value to the i-th positional-eligible
\* parameter after state and does not raise while doing so (a value that
\* cannot be converted, or an unexpected key, is another matter).
C25_PositionalBinding ==
  LET fr == frames["A"]
      b == prepare_args(fr.func, fr.py_args, fr.py_kwargs)
      elig == PositionalEligible(fr.func)
      n == IF HasKind(fr.func, "VP") THEN Len(fr.py_args) ELSE Min(Len(fr.py_args), Len(elig))
  IN (Bound(fr) /\ fr.py_args # <<>>)
       => /\ b.err \in {"", "Could not convert", "Unexpected parameter"}
          /\ b.ok => /\ Len(fr.args) = n
                     /\ \A i \in 1..Min(n, Len(elig)) :
                          LET c == convert_parameter(elig[i], fr.py_args[i],
                                                     ExpectedTypes(fr.func), "")
                          IN c.ok /\ fr.args[i] = c.val

\* what convert_parameter owes for one value: c is its outcome for the
\* parameter param, the raw value val and the declared type ty
Converts(param, val, ty, c) ==
  IF ty = "empty" \/ TypeOf(val) = ty
  THEN /\ c.ok /\ c.val = val
       /\ Len(c.rec) = 1 /\ c.rec[1].kind = "Unchanged"
       /\ c.rec[1].parameter = param /\ c.rec[1].value = val
  ELSE LET built == try_special_conversions(val, ty)
       IN IF built.ok
          THEN /\ c.ok /\ c.val = built.val /\ TypeOf(c.val) = ty
               /\ c.rec = <<ConversionRecord(param, val, ty, built.val)>>
          ELSE /\ ~c.ok
               /\ c.err = [param |-> param, val |-> val,
                            from_name |-> TypeOf(val), to_name |-> ty]

\* the values of the frame's request that prepare_args converts, each with
\* the parameter it is converted for
Converted(fr) ==
  LET elig == PositionalEligible(fr.func)
  IN {[param |-> elig[i], val |-> fr.py_args[i]] :
        i \in 1..Min(Len(fr.py_args), Len(elig))}
     \cup {[param |-> KeptKwargs(fr)[i].key, val |-> KeptKwargs(fr)[i].val] :
             i \in {j \in DOMAIN KeptKwargs(fr) :
                      KeptKwargs(fr)[j].key \in Declared(fr.func)}}

\* C26: convert_parameter returns the raw value unchanged, logged as
\* unchanged, when the parameter has no declared type or the value already
\* has the declared type; otherwise it returns the declared type built from
\* the raw value and logs a ConversionRecord; when the type cannot be built
\* it raises the error naming parameter, value, source and target type,
\* and the request ends in the binding error.
C26_ConvertParameter ==
  LET fr == frames["A"]
      types == ExpectedTypes(fr.func)
      b == prepare_args(fr.func, fr.py_args, fr.py_kwargs)
  IN Bound(fr)
       => /\ \A x \in Converted(fr) :
               Converts(x.param, x.val, types[x.param],
                        convert_parameter(x.param, x.val, types, ""))
          /\ b.ok => /\ \A x \in Converted(fr) :
                          convert_parameter(x.param, x.val, types, "").ok
                     /\ \A i \in DOMAIN fr.args :
                          i <= Len(PositionalEligible(fr.func))
                            => LET ty == types[PositionalEligible(fr.func)[i]]
                               IN ty = "empty" \/ TypeOf(fr.args[i]) = ty
                     /\ \A i \in DOMAIN fr.kwargs :
                          fr.kwargs[i].key \in Declared(fr.func)
                            => LET ty == types[fr.kwargs[i].key]
                               IN ty = "empty" \/ TypeOf(fr.kwargs[i].val) = ty
          /\ (b.err \notin {"IndexError", "I really thought this was impossible!"}
               /\ \E x \in Converted(fr) : ~convert_parameter(x.param, x.val, types, "").ok)
                => /\ ~b.ok /\ b.err = "Could not convert"
                   /\ fr.calls = 0
                   /\ fr.error.title = TitleBinding

\* a value was built into its declared type and one could not be
C26_Witness ==
  LET fr == frames["A"]
  IN /\ fr.pc = "done" /\ fr.func = "greet"
     /\ fr.args = <<PyInt(5)>>
     /\ \E i \in DOMAIN server._conversion_record :
          server._conversion_record[i] = ConversionRecord("a", PyStr("5"), "int", PyInt(5))

C26_WitnessRaise ==
  LET fr == frames["A"]
  IN /\ fr.pc = "done" /\ fr.func = "greet"
     /\ fr.out.content.body = <<"Could not convert">>
     /\ \E x \in Converted(fr) :
          convert_parameter(x.param, x.val, ExpectedTypes(fr.func), "").err
            = CouldNotConvert("a", PyStr("x"), "str", "int")

\* C27: every bind clears and refills the conversion record: once
\* prepare_args has returned, the record holds one entry for each argument
\* bound in this request, in binding order, and nothing of an earlier
\* request.
C27_ConversionRecordPerRequest ==
  LET fr == frames["A"]
      rec == server._conversion_record
      elig == PositionalEligible(fr.func)
      na == Len(fr.args)
  IN (Bound(fr) /\ prepare_args(fr.func, fr.py_args, fr.py_kwargs).ok)
       => /\ Len(rec) = na + Len(fr.kwargs)
          /\ \A i \in 1..na :
               /\ rec[i].value = fr.py_args[i]
               /\ rec[i].converted_value = fr.args[i]
               /\ i <= Len(elig) => rec[i].parameter = elig[i]
          /\ \A j \in DOMAIN fr.kwargs :
               /\ rec[na + j].value = Get(fr.py_kwargs, fr.kwargs[j].key)
               /\ rec[na + j].converted_value = fr.kwargs[j].val
               /\ fr.kwargs[j].key \in Declared(fr.func)
                    => rec[na + j].parameter = fr.kwargs[j].key

\* a request bound on a server whose record still held an earlier request's
\* entries
C27_Witness ==
  LET fr == frames["A"]
  IN /\ fr.stale
     /\ fr.pc = "done"
     /\ fr.func = "greet"
     /\ fr.out.content.kind = "page"
     /\ server._conversion_record = <<ConversionRecord("a", PyStr("5"), "int", PyInt(5))>>

\* C28: a request without arguments for a route bound to reset on a set-up
\* server, whatever state and ledger it supplies, ends with the state captured at setup restored, an empty state
\* history, the handler of "/" called once with that state and bound with
\* no arguments, and a returned ledger of exactly one entry, for "/".
C28_ResetRunsHome ==
  LET fr == frames["A"]
      init == load_from_state(server._initial_state, server._initial_state_type)
      home == Get(server.routes, "/")
  IN (/\ fr.pc \in {"done", "raised"} /\ fr.phase # "NotSetUp" /\ ResetsServer(fr.req)
      /\ fr.req.args = <<>> /\ fr.req.kwargs = <<>> /\ fr.req.inputs = <<>>)
       => /\ fr.pc = "done"
          /\ fr.from_reset /\ fr.func = home.func /\ fr.calls = 1
          /\ init.ok /\ fr.state = init.val
          /\ fr.args = <<>> /\ fr.kwargs = <<>>
          /\ server._conversion_record = <<>>
          /\ Len(server._page_history) = 1
          /\ server._page_history[1].vp.url = <<FuncTable[home.func].name>>
          /\ fr.out.history = stringify_history(server._page_history)

\* the start-up call that has just returned or raised
LastCall == IF prog.pc > 1 THEN Apps[prog.app][prog.pc - 1].op ELSE ""

\* C29: setup with no route registered raises; reset called before setup
\* raises and leaves the server as it was; render_route called before setup
\* raises to its caller; no handler runs in either case.
C29_NotSetUpRaises ==
  LET fr == frames["A"]
  IN /\ (LastCall = "setup" /\ server.original_routes = <<>>)
          => prog.raised /\ server.routes = <<>>
     /\ (LastCall = "reset" /\ server._initial_state_type = Unset)
          => /\ prog.raised
             /\ server._state = Server0._state
             /\ server._page_history = <<>> /\ server._state_history = <<>>
     /\ server._initial_state_type = Unset
          => /\ fr.pc \in {"idle", "raised"}
             /\ fr.pc = "raised"
                  => fr.phase = "NotSetUp" /\ fr.calls = 0 /\ fr.func = ""
                     /\ fr.out = NoOut

\* the start-up code called reset before setup, and a request came in
\* before setup too
C29_Witness ==
  /\ prog.app = "early" /\ prog.pc = 3 /\ prog.raised
  /\ frames["A"].pc = "raised"
  /\ frames["A"].phase = "NotSetUp"
  /\ frames["A"].req.route = "/"

C29_WitnessNoRoutes ==
  prog.app = "empty" /\ prog.pc = 2 /\ prog.raised /\ server.routes = <<>>

\* C30: every error page carries a title, the handler's identity and the
\* error message; in production mode it leaves the diagnostic trace out,
\* outside production mode it holds it.
C30_ErrorPageByMode ==
  LET fr == frames["A"]
      page == fr.out.content
  IN (fr.pc = "done" /\ page.kind = "error")
       => /\ page.title # "" /\ page.func # "" /\ page.body # <<>>
          /\ page.tb = ~server.production

\* C31: a handler whose result has text for content, and a handler whose
\* result's content list holds something that is neither text nor a content
\* node, each end in the error of the result-verification phase, and the
\* two errors carry different messages.
C31_ContentVerification ==
  LET fr == frames["A"]
  IN /\ (fr.pc = "done" /\ fr.func \in {"textpage", "numpage", "latetext", "latenum"})
          => /\ fr.out.content.kind = "error"
             /\ fr.out.content.title = TitleVerifying
             /\ fr.phase = "VerifyingPageResult"
             /\ fr.func \in {"textpage", "latetext"}
                  => fr.out.content.body \in {<<ContentIsStr>>, <<TypeChanged>>}
             /\ fr.func \in {"numpage", "latenum"}
                  => fr.out.content.body \in {<<ContentBadItem>>, <<TypeChanged>>}
     /\ ContentIsStr # ContentBadItem

\* the composite o occurs in two positions of the value at Root
Shared(heap, o) ==
  Cardinality({<<p, i>> \in ({Root} \cup Inside(heap, Root)) \X (1..MaxItems) :
                 i \in DOMAIN heap[p].items /\ heap[p].items[i] = Ref(o)}) >= 2

\* C32: cycle detection follows the path: a value that does not contain
\* itself is never reported as circular, whether or not one composite occurs
\* in several positions of it, and it is encoded whenever it holds nothing
\* of an unsupported class; the circular-reference error is raised only for
\* a value met again while it is being encoded.
C32_SharedNotCircular ==
  LET heap == codec.heap
  IN codec.pc = "done"
       => /\ ~Cyclic(heap) => codec.result.err # CircularError
          /\ (~Cyclic(heap) /\ ~HoldsUnsupported(heap)) => codec.result.ok
          /\ codec.result.err = CircularError => Cyclic(heap)

\* the list at o2 is held twice by the list at Root and is encoded twice
C32_Witness ==
  /\ codec.pc = "done"
  /\ codec.heap[Root].items = <<Ref("o2"), Ref("o2")>>
  /\ codec.heap["o2"].items = <<Prim>>
  /\ Shared(codec.heap, "o2")
  /\ ~Cyclic(codec.heap)
  /\ codec.result = Encoded(5, 3)

\* the snapshot text of a JSON value
SnapshotText(jv) == <<ToString([j |-> jv.j, n |-> jv.n, s |-> jv.s])>>

\* the page function of the frame's request has been called
Called(fr) == fr.func # "" /\ fr.calls = 1 /\ fr.pc # "create"

\* C33: the state snapshot of the ledger entry a request adds is the
\* encoding of the state the page function was called with: the state
\* supplied with the request (for a reset, the state captured at setup),
\* whatever the page function wrote to it or returned.
C33_SnapshotOfStateBefore ==
  LET fr == frames["A"]
      h == server._page_history
      supplied == load_from_state(fr.req.state_str, server._initial_state_type)
      initial == load_from_state(server._initial_state, server._initial_state_type)
      before == IF fr.from_reset THEN initial ELSE supplied
  IN Called(fr)
       => /\ h # <<>>
          /\ h[Len(h)].vp.url = <<FuncTable[fr.func].name>>
          /\ before.ok
          /\ h[Len(h)].s = snapshot(before.val).val
          /\ ~fr.from_reset => h[Len(h)].s = SnapshotText(json_loads(fr.req.state_str).val)

\* poke wrote to the state it was given and returned it
C33_Witness ==
  LET fr == frames["A"]
  IN /\ fr.pc = "done" /\ fr.func = "poke" /\ ~fr.from_reset
     /\ fr.req.state_str = json_dumps(JObj(0))
     /\ fr.state = PyDict(1)
     /\ fr.out.state = json_dumps(JObj(1))
     /\ server._page_history[Len(server._page_history)].s = <<ToString(JObj(0))>>

\* C34: whenever render_route returns error content, the state string it
\* returns is the state string the request supplied, also when the page
\* function wrote to the decoded state before it failed and when the
\* failure came after the server had adopted the new state.
C34_ErrorReturnsSuppliedState ==
  LET fr == frames["A"]
  IN (fr.pc = "done" /\ fr.out.content.kind = "error")
       => fr.out.state = fr.req.state_str

\* pokeboom wrote to the state and raised
C34_Witness ==
  LET fr == frames["A"]
  IN /\ fr.pc = "done" /\ fr.func = "pokeboom"
     /\ fr.out.content.title = TitleCreating
     /\ fr.req.state_str = json_dumps(JObj(0))
     /\ server._state = PyDict(1)
     /\ fr.out.state = json_dumps(JObj(0))

\* the new state was adopted and rendering failed
C34_WitnessAdopted ==
  LET fr == frames["A"]
  IN /\ fr.pc = "done" /\ fr.func = "opaque"
     /\ fr.out.content.title = TitleRendering
     /\ server._state = PyOpaque
     /\ fr.out.state = fr.req.state_str

\* C35: a request that ends in error content leaves _state_history, which
\* the next request's state-type check compares against, as it found it.
C35_ErrorKeepsStateHistory ==
  LET fr == frames["A"]
  IN (fr.pc = "done" /\ fr.out.content.kind = "error")
       => server._state_history = fr.state_history0

\* the names of the parameters that the positional values of a call fill
FilledByPosition(fr) ==
  LET ps == FuncTable[fr.func].params
      positional == SelectSeq(ps, LAMBDA p : p.kind \in {"PO", "PK"})
  IN {positional[i].name : i \in 1..Min(Len(fr.args), Len(positional))}

\* C36: the (args, kwargs) that prepare_args returns never give one
\* parameter both a positional value and a keyword value, so the call of the
\* handler never fails on a duplicate argument.
C36_NoDuplicateArgument ==
  LET fr == frames["A"]
  IN (fr.func # "" /\ fr.pc \in {"create", "verify"})
       => \A i \in DOMAIN fr.kwargs : fr.kwargs[i].key \notin FilledByPosition(fr)

\* C37: a request for a route bound to reset on a set-up server whose "/"
\* is a page function performs the reset whatever positional values,
\* keyword values and input values it carries, and the arguments it
\* carries never make it end in error content.
C37_ResetIgnoresArguments ==
  LET fr == frames["A"]
  IN (/\ fr.pc = "done" /\ fr.phase # "NotSetUp" /\ ResetsServer(fr.req)
      /\ Get(server.routes, "/").kind = "page")
       => /\ fr.from_reset
          /\ ~(fr.out.content.kind = "error" /\ fr.out.content.body = <<"TypeError">>)

\* C38: once setup has succeeded (the route table holds the reset entry),
\* the table holds "/--reset" and "/", and "/" is bound to a page function
\* and never to the reset entry, so that no reset request ends in an
\* unbounded recursion.
C38_HomeIsUserHandler ==
  LET fr == frames["A"]
  IN (\E i \in DOMAIN server.routes : server.routes[i].val.kind = "reset")
       => /\ HasKey(server.routes, "/--reset") /\ HasKey(server.routes, "/")
          /\ Get(server.routes, "/").kind = "page"
          /\ ~(fr.pc = "done" /\ fr.out.content.body = <<"RecursionError">>)

\* C39: when setup has raised because no route is registered, the server
\* is still not set up: reset and render_route find nothing captured by
\* setup, and every request raises to its caller before its lifecycle.
C39_FailedSetupNotSetUp ==
  LET fr == frames["A"]
  IN (LastCall = "setup" /\ prog.raised /\ server.routes = <<>>)
       => /\ not_setup(server)
          /\ server._initial_state = NoStateStr
          /\ fr.pc \in {"idle", "raised"}
          /\ fr.pc = "raised" => fr.phase = "NotSetUp"

====
